---- MODULE Spec2Model ----
(***************************************************************************)
(* Model of the Acrobat Services create-pdf orchestrator                   *)
(* (adobe_api_render.py, adobe_rest_auth.py, adobe_credentials.py).        *)
(*                                                                         *)
(* One run of adobe_api_render.main is one behaviour.  Time is counted in  *)
(* ticks of 0.1 s, the floor the polling loop puts under its sleep.        *)
(* Strings whose content the code transforms (job status, URIs, tokens)    *)
(* are sequences of one-character strings so that strip() and lower() are  *)
(* computed, not assumed.                                                  *)
(***************************************************************************)
EXTENDS Integers, Sequences, FiniteSets, TLC

(***************************************************************************)
(* Bounds of the model.                                                    *)
(***************************************************************************)
MaxPollTimeoutSeconds == 1      \* --poll-timeout-seconds ranges over 0..this
MaxPollIntervalTicks == 6       \* largest --poll-interval-seconds, in ticks
MaxRequestTicks == 1            \* longest time one HTTP exchange takes, in ticks

(***************************************************************************)
(* Program constants.                                                      *)
(***************************************************************************)
TicksPerSecond == 10            \* 1 s = 10 ticks of 0.1 s
MinSleepTicks == 1              \* max(poll_interval_seconds, 0.1)

(***************************************************************************)
(* Strings as character sequences; str.strip() and str.lower().            *)
(***************************************************************************)
IsSpace(c) == c \in {" ", "\n", "\t"}

RECURSIVE lstrip(_)
lstrip(s) ==
    IF s = <<>> THEN <<>>
    ELSE IF IsSpace(Head(s)) THEN lstrip(Tail(s)) ELSE s

RECURSIVE rstrip(_)
rstrip(s) ==
    IF s = <<>> THEN <<>>
    ELSE IF IsSpace(s[Len(s)]) THEN rstrip(SubSeq(s, 1, Len(s) - 1)) ELSE s

strip(s) == rstrip(lstrip(s))

UpperCase == <<"A", "B", "C", "D", "E", "F", "G", "H", "I", "J", "K", "L", "M",
               "N", "O", "P", "Q", "R", "S", "T", "U", "V", "W", "X", "Y", "Z">>
LowerCase == <<"a", "b", "c", "d", "e", "f", "g", "h", "i", "j", "k", "l", "m",
               "n", "o", "p", "q", "r", "s", "t", "u", "v", "w", "x", "y", "z">>

LowerChar(c) ==
    IF \E i \in DOMAIN UpperCase : UpperCase[i] = c
    THEN LowerCase[CHOOSE i \in DOMAIN UpperCase : UpperCase[i] = c]
    ELSE c

lower(s) == [i \in 1..Len(s) |-> LowerChar(s[i])]

\* the three status literals poll_create_pdf_job compares against
DoneLit == <<"d", "o", "n", "e">>
FailedLit == <<"f", "a", "i", "l", "e", "d">>
InProgressLit == <<"i", "n", " ", "p", "r", "o", "g", "r", "e", "s", "s">>

(***************************************************************************)
(* adobe_credentials.py                                                    *)
(*                                                                         *)
(* A credential environment is                                             *)
(*   arg      the --credentials-json path ("" when not given)              *)
(*   env_json the ADOBE_PDF_CREDENTIALS_JSON path ("" when unset)          *)
(*   files    what lies at each path                                       *)
(*   primary_id, primary_secret, legacy_id, legacy_secret                  *)
(*            the stripped values of the four environment variables        *)
(***************************************************************************)
\* Python's None, and a str where the code has str | None
None == [is_none |-> TRUE]
Str(text) == [is_none |-> FALSE, text |-> text]

DEFAULT_CREDENTIALS_JSON == "default.json"

CredPaths == {"a.json", "b.json", DEFAULT_CREDENTIALS_JSON}

\* contents a candidate file can have
FileStates == {"absent", "badjson", "nonobject", "no_client_credentials",
               "no_client_id", "no_client_secret", "null_client_id", "valid"}

\* the client_id and client_secret a valid credentials file at path holds
FileClientId(path) == <<"c", "l", "i", "e", "n", "t", "-", "i", "d", "-", path>>
FileClientSecret(path) == <<"s", "e", "c", "r", "e", "t", "-", path>>

\* the service_principal_credentials.organization_id a valid file at path holds
FileOrganizationId(path) == <<"o", "r", "g", "-", path>>

\* _load_json_credentials: the credentials, or ok = FALSE with the reason
load_json_credentials(path, content) ==
    LET failed(reason) == [ok |-> FALSE, client_id |-> <<>>, client_secret |-> <<>>,
                           organization_id |-> None,
                           source |-> <<>>, reason |-> reason]
    IN  IF content = "badjson" THEN failed("Unable to read credentials JSON")
        ELSE IF content = "nonobject" THEN failed("must be an object")
        ELSE IF content = "no_client_credentials"
            THEN failed("must contain object 'client_credentials'")
        ELSE IF content \in {"no_client_id", "no_client_secret"}
            THEN failed("missing required keys")
        \* str(client_credentials.get("client_id", "")) of a JSON null is "None"
        ELSE IF content = "null_client_id"
            THEN [ok |-> TRUE, client_id |-> <<"None">>,
                  client_secret |-> FileClientSecret(path),
                  organization_id |-> None,
                  source |-> <<"json:", path>>, reason |-> ""]
        ELSE [ok |-> TRUE, client_id |-> FileClientId(path),
              client_secret |-> FileClientSecret(path),
              organization_id |-> Str(FileOrganizationId(path)),
              source |-> <<"json:", path>>, reason |-> ""]

\* the partial-pair messages of _load_env_credentials, in the order built
partial_messages(e) ==
    (IF e.primary_id # <<>> /\ e.primary_secret = <<>>
        THEN <<"PDF_SERVICES_CLIENT_ID is set but PDF_SERVICES_CLIENT_SECRET is missing">>
        ELSE <<>>)
    \o (IF e.primary_secret # <<>> /\ e.primary_id = <<>>
        THEN <<"PDF_SERVICES_CLIENT_SECRET is set but PDF_SERVICES_CLIENT_ID is missing">>
        ELSE <<>>)
    \o (IF e.legacy_id # <<>> /\ e.legacy_secret = <<>>
        THEN <<"ADOBE_PDF_SERVICES_CLIENT_ID is set but ADOBE_PDF_SERVICES_CLIENT_SECRET is missing">>
        ELSE <<>>)
    \o (IF e.legacy_secret # <<>> /\ e.legacy_id = <<>>
        THEN <<"ADOBE_PDF_SERVICES_CLIENT_SECRET is set but ADOBE_PDF_SERVICES_CLIENT_ID is missing">>
        ELSE <<>>)

\* _load_env_credentials: the credentials, or ok = FALSE with the messages
load_env_credentials(e) ==
    IF e.primary_id # <<>> /\ e.primary_secret # <<>> THEN
        [ok |-> TRUE, client_id |-> e.primary_id, client_secret |-> e.primary_secret,
         source |-> <<"env:PDF_SERVICES_CLIENT_ID/PDF_SERVICES_CLIENT_SECRET">>,
         organization_id |-> None, messages |-> <<>>]
    ELSE IF e.legacy_id # <<>> /\ e.legacy_secret # <<>> THEN
        [ok |-> TRUE, client_id |-> e.legacy_id, client_secret |-> e.legacy_secret,
         source |-> <<"env:ADOBE_PDF_SERVICES_CLIENT_ID/ADOBE_PDF_SERVICES_CLIENT_SECRET">>,
         organization_id |-> None, messages |-> <<>>]
    ELSE IF partial_messages(e) # <<>> THEN
        [ok |-> FALSE, client_id |-> <<>>, client_secret |-> <<>>, source |-> <<>>,
         organization_id |-> None, messages |-> partial_messages(e)]
    ELSE
        [ok |-> FALSE, client_id |-> <<>>, client_secret |-> <<>>, source |-> <<>>,
         organization_id |-> None, messages |-> <<"No usable environment credentials found.">>]

\* the ordered, de-duplicated (label, path) candidates of resolve_credentials
credential_candidates(e) ==
    LET c1 == IF e.arg # "" THEN <<<<"--credentials-json", e.arg>>>> ELSE <<>>
        c2 == IF e.env_json # "" /\ ~(\E i \in 1..Len(c1) : c1[i][2] = e.env_json)
                THEN Append(c1, <<"ADOBE_PDF_CREDENTIALS_JSON", e.env_json>>)
                ELSE c1
    IN  IF ~(\E i \in 1..Len(c2) : c2[i][2] = DEFAULT_CREDENTIALS_JSON)
           THEN Append(c2, <<"default", DEFAULT_CREDENTIALS_JSON>>)
           ELSE c2

\* the loop over the candidates from index i on, with the diagnostics so far
RECURSIVE try_candidates(_, _, _, _)
try_candidates(e, cands, i, msgs) ==
    IF i > Len(cands) THEN
        LET env == load_env_credentials(e)
        IN  IF env.ok THEN
                [ok |-> TRUE, client_id |-> env.client_id,
                 client_secret |-> env.client_secret, source |-> env.source,
                 organization_id |-> env.organization_id,
                 json_attempts |-> msgs, env_messages |-> <<>>]
            ELSE
                [ok |-> FALSE, client_id |-> <<>>, client_secret |-> <<>>, source |-> <<>>,
                 organization_id |-> None,
                 json_attempts |-> msgs, env_messages |-> env.messages]
    ELSE
        LET label == cands[i][1]
            path == cands[i][2]
            content == e.files[path]
        IN  IF content = "absent" THEN
                try_candidates(e, cands, i + 1,
                               Append(msgs, <<label, "credentials file not found">>))
            ELSE
                LET loaded == load_json_credentials(path, content)
                IN  IF loaded.ok THEN
                        [ok |-> TRUE, client_id |-> loaded.client_id,
                         client_secret |-> loaded.client_secret,
                         source |-> loaded.source,
                         organization_id |-> loaded.organization_id,
                         json_attempts |-> msgs, env_messages |-> <<>>]
                    ELSE
                        try_candidates(e, cands, i + 1,
                                       Append(msgs, <<label, loaded.reason>>))

resolve_credentials(e) == try_candidates(e, credential_candidates(e), 1, <<>>)

\* mask_secret(value, keep=4)
mask_secret(value, keep) ==
    IF value = <<>> THEN <<>>
    ELSE IF Len(value) <= keep * 2 THEN [i \in 1..Len(value) |-> "*"]
    ELSE SubSeq(value, 1, keep) \o <<"...">>
         \o SubSeq(value, Len(value) - keep + 1, Len(value))

credentials_summary(c) ==
    [source |-> c.source, client_id_masked |-> mask_secret(c.client_id, 4),
     organization_id |-> c.organization_id]

(***************************************************************************)
(* adobe_rest_auth.py: errors and the transport                            *)
(***************************************************************************)
NoException == [type |-> "none"]

\* AdobeApiError(message, request_id=..., details=...); details or {} is <<>>;
\* a message is a sequence of text fragments
AdobeApiError(message, request_id, details) ==
    [type |-> "AdobeApiError", message |-> message,
     request_id |-> request_id, details |-> details, body_excerpt |-> None]

\* AdobeApiError(message, request_id=..., body_excerpt=...)
AdobeApiErrorWithBody(message, request_id, body_excerpt) ==
    [type |-> "AdobeApiError", message |-> message,
     request_id |-> request_id, details |-> <<>>, body_excerpt |-> Str(body_excerpt)]

\* _sanitize_body_excerpt(body, max_chars=400) of the text of a body
max_chars == 400

sanitize_body_excerpt(body) ==
    LET text == strip([i \in 1..Len(body) |-> IF body[i] = "\n" THEN " " ELSE body[i]])
    IN  IF Len(text) > max_chars THEN SubSeq(text, 1, max_chars) \o <<"...">> ELSE text

\* any other exception class, by its name
Raised(type) == [type |-> type]

\* What the network does with one request.  kind is
\*   "response"     urlopen returned and response.read() delivered the body
\*   "HTTPError"    urlopen raised urllib.error.HTTPError (non-2xx status)
\*   "URLError"     urlopen raised urllib.error.URLError (no connection)
\*   "TimeoutError" the socket timed out while the response was being read:
\*                  an OSError that is not a URLError
\* request_id is the x-request-id header (None when absent), ticks the time
\* the exchange took.
TransportKinds == {"response", "HTTPError", "URLError", "TimeoutError"}

\* the x-request-id of the n-th request of a run, when the server sends one
RequestId(n) == [is_none |-> FALSE, id |-> n]

\* _http_request: <<response, exception>>, one of them None / NoException
http_request(exchange) ==
    IF exchange.kind = "response" THEN
        [response |-> exchange, exc |-> NoException]
    ELSE IF exchange.kind = "HTTPError" THEN
        [response |-> None,
         exc |-> AdobeApiErrorWithBody(<<"HTTP error">>, exchange.request_id,
                                       sanitize_body_excerpt(<<>>))]
    ELSE IF exchange.kind = "URLError" THEN
        [response |-> None, exc |-> AdobeApiError(<<"Network error">>, None, <<>>)]
    ELSE
        [response |-> None, exc |-> Raised(exchange.kind)]

\* the exchanges that fail in the transport, for any endpoint; rid is the
\* x-request-id the server would send
FailedExchanges(rid) ==
    {[kind |-> "HTTPError", request_id |-> rid, ticks |-> 0, location |-> <<>>,
      body |-> None]}
    \cup {[kind |-> k, request_id |-> None, ticks |-> MaxRequestTicks,
           location |-> <<>>, body |-> None] : k \in {"URLError", "TimeoutError"}}

\* the successful exchanges whose body is one of bodies (no Location header)
Responses(bodies, rid, durations) ==
    {[kind |-> "response", request_id |-> rid, ticks |-> t, location |-> <<>>, body |-> b] :
        t \in durations, b \in bodies}

\* json.loads of a body: bodies are "invalid" (not JSON), "array" (JSON that
\* is not an object) or "object" with the fields the endpoint sends
NotJson == [json |-> "invalid"]
JsonArray == [json |-> "array"]

\* response.body, the text the server sent: a page that is not JSON, a JSON
\* array, or the object with its fields (a JSON null is written null)
body_text(body) ==
    IF body.json = "invalid" THEN <<"<html>", "\n">>
    ELSE IF body.json = "array" THEN <<"[]">>
    ELSE IF "access_token" \in DOMAIN body THEN
        <<"{access_token:">>
        \o (IF "access_token" \in body.nulls THEN <<"null">> ELSE body.access_token)
        \o <<",expires_in:", body.expires_in, "}", "\n">>
    ELSE <<"{...}", "\n">>

\* urllib.request.Request(url=...) accepts a URL only with a scheme; the
\* model's URLs begin with a fragment that holds scheme and host
UrlHeads == {"https://api", "https://up", "https://dl"}
has_scheme(url) == url # <<>> /\ Head(url) \in UrlHeads

\* the value a step hands back: its return value, or the exception it raised
Returns(value) == [value |-> value, exc |-> NoException]
Raises(exc) == [value |-> None, exc |-> exc]

(***************************************************************************)
(* request_access_token                                                    *)
(***************************************************************************)
\* str(body.get(key, "")): the text of a JSON string, "None" for a JSON null;
\* body.nulls are the keys of the object whose value is null
json_text(body, key) == IF key \in body.nulls THEN <<"None">> ELSE body[key]

TokenBodies ==
    {NotJson, JsonArray}
    \cup {[json |-> "object", access_token |-> a, expires_in |-> e, nulls |-> {}] :
            a \in {<<>>, <<" ">>, <<"tok">>}, e \in {"3600", "soon"}}
    \cup {[json |-> "object", access_token |-> <<>>, expires_in |-> "3600",
           nulls |-> {"access_token"}]}

\* variant: the error for an invalid expires_in quotes the response body too
request_access_token_excerpting(exchange) ==
    LET sent == http_request(exchange)
        body == exchange.body
        rid == exchange.request_id
    IN  IF sent.exc # NoException THEN Raises(sent.exc)
        ELSE IF body.json = "invalid" THEN
            Raises(AdobeApiErrorWithBody(<<"Token endpoint returned non-JSON response">>, rid,
                                         sanitize_body_excerpt(body_text(body))))
        ELSE IF body.json # "object" THEN
            Raises(Raised("AttributeError"))          \* body.get on a non-dict
        ELSE IF body.expires_in # "3600" THEN
            Raises(AdobeApiErrorWithBody(<<"Invalid expires_in from token endpoint">>, rid,
                                         sanitize_body_excerpt(body_text(body))))
        ELSE IF strip(json_text(body, "access_token")) = <<>> THEN
            Raises(AdobeApiErrorWithBody(<<"Token response missing access_token">>, rid,
                                         sanitize_body_excerpt(body_text(body))))
        ELSE
            Returns([access_token |-> strip(json_text(body, "access_token")),
                     token_type |-> "Bearer",
                     expires_in |-> 3600, request_id |-> rid])

\* request_access_token, lines 106-167
request_access_token(exchange) ==
    LET sent == http_request(exchange)
        body == exchange.body
        rid == exchange.request_id
    IN  IF sent.exc # NoException THEN Raises(sent.exc)
        ELSE IF body.json = "invalid" THEN
            Raises(AdobeApiErrorWithBody(<<"Token endpoint returned non-JSON response">>, rid,
                                         sanitize_body_excerpt(body_text(body))))
        ELSE IF body.json # "object" THEN
            Raises(Raised("AttributeError"))          \* body.get on a non-dict
        ELSE IF body.expires_in # "3600" THEN
            Raises(AdobeApiError(<<"Invalid expires_in from token endpoint">>, rid, <<>>))
        ELSE IF strip(json_text(body, "access_token")) = <<>> THEN
            Raises(AdobeApiErrorWithBody(<<"Token response missing access_token">>, rid,
                                         sanitize_body_excerpt(body_text(body))))
        ELSE
            Returns([access_token |-> strip(json_text(body, "access_token")),
                     token_type |-> "Bearer",
                     expires_in |-> 3600, request_id |-> rid])

(***************************************************************************)
(* create_upload_asset                                                     *)
(***************************************************************************)
AssetBodies ==
    {NotJson, JsonArray}
    \cup {[json |-> "object", assetID |-> a, uploadUri |-> u, nulls |-> {}] :
            a \in {<<>>, <<"asset">>}, u \in {<<>>, <<"https://up">>}}
    \cup {[json |-> "object", assetID |-> <<"asset">>, uploadUri |-> <<>>,
           nulls |-> {"uploadUri"}]}

create_upload_asset(exchange) ==
    LET sent == http_request(exchange)
        body == exchange.body
        rid == exchange.request_id
    IN  IF sent.exc # NoException THEN Raises(sent.exc)
        ELSE IF body.json = "invalid" THEN
            Raises(AdobeApiErrorWithBody(
                        <<"Asset upload-URI endpoint returned non-JSON response">>, rid,
                        sanitize_body_excerpt(body_text(body))))
        ELSE IF body.json # "object" THEN
            Raises(Raised("AttributeError"))
        ELSE IF \/ strip(json_text(body, "assetID")) = <<>>
                \/ strip(json_text(body, "uploadUri")) = <<>> THEN
            Raises(AdobeApiError(<<"Asset upload-URI response missing assetID or uploadUri">>,
                                 rid, [response |-> body]))
        ELSE
            Returns([asset_id |-> strip(json_text(body, "assetID")),
                     upload_uri |-> strip(json_text(body, "uploadUri")),
                     request_id |-> rid])

(***************************************************************************)
(* upload_asset_bytes                                                      *)
(***************************************************************************)
upload_asset_bytes(exchange) ==
    LET sent == http_request(exchange)
    IN  IF sent.exc # NoException THEN Raises(sent.exc)
        ELSE Returns([status_code |-> 200, request_id |-> exchange.request_id])

(***************************************************************************)
(* submit_create_pdf_job                                                   *)
(***************************************************************************)
ApiBaseUrl == <<"https://api">>

\* the Location headers a submit response can carry; <<>> is no header
Locations == {<<>>, <<" ">>, <<"/", "job">>, <<"job">>, <<"https://api", "/", "job">>}

SubmitResponses(rid, durations) ==
    {[kind |-> "response", request_id |-> rid, ticks |-> t, location |-> l, body |-> None] :
        t \in durations, l \in Locations}

\* variant: the Location header is used without the check for a missing one
submit_create_pdf_job_unchecked(exchange) ==
    LET sent == http_request(exchange)
        location == strip(exchange.location)
        rid == exchange.request_id
    IN  IF sent.exc # NoException THEN Raises(sent.exc)
        ELSE Returns([location |-> IF location # <<>> /\ Head(location) = "/"
                                      THEN ApiBaseUrl \o location ELSE location,
                      status_code |-> 201, request_id |-> rid])

submit_create_pdf_job(exchange) ==
    LET sent == http_request(exchange)
        location == strip(exchange.location)
        rid == exchange.request_id
    IN  IF sent.exc # NoException THEN Raises(sent.exc)
        ELSE IF location = <<>> THEN
            \* the responses to the submission are modelled without a body
            Raises(AdobeApiErrorWithBody(<<"Create PDF response missing location header">>, rid,
                                         sanitize_body_excerpt(<<>>)))
        ELSE
            Returns([location |-> IF Head(location) = "/" THEN ApiBaseUrl \o location
                                                          ELSE location,
                     status_code |-> 201, request_id |-> rid])

(***************************************************************************)
(* poll_create_pdf_job                                                     *)
(***************************************************************************)
RawStatuses ==
    {InProgressLit,
     <<"I", "n", " ", "P", "r", "o", "g", "r", "e", "s", "s", " ">>,
     DoneLit,
     <<" ", "D", "o", "n", "e">>,
     FailedLit,
     <<"q", "u", "e", "u", "e", "d">>,
     <<>>}

\* the "asset" member of a status body: absent, a string, or an object whose
\* downloadUri is absent, JSON null, or a string (empty, blank or a URI)
NoAsset == [type |-> "none", uri_type |-> "absent", downloadUri |-> <<>>]
Assets ==
    {NoAsset,
     [type |-> "str", uri_type |-> "absent", downloadUri |-> <<>>],
     [type |-> "dict", uri_type |-> "absent", downloadUri |-> <<>>],
     [type |-> "dict", uri_type |-> "null", downloadUri |-> <<>>]}
    \cup {[type |-> "dict", uri_type |-> "string", downloadUri |-> u] :
            u \in {<<>>, <<" ">>, <<"https://dl">>}}

\* str(asset.get("downloadUri", "")): str(None) is the text None
download_uri_text(asset) ==
    IF asset.uri_type = "null" THEN <<"None">> ELSE asset.downloadUri

\* the "error" member: absent, or an object with a message
NoError == [type |-> "none", message |-> <<>>]
Errors ==
    {NoError}
    \cup {[type |-> "dict", message |-> m] :
            m \in {<<"bad asset">>, <<" ", "bad asset">>, <<" ", "bad asset", " ">>,
                   <<" ">>, <<>>}}

\* variant: the message of the server is dropped
failed_job_message_generic(error) == <<"Adobe job failed">>

\* error_message of the failed branch: the stripped message of the error
\* object, or the default text when there is none or it is blank
failed_job_message(error) ==
    LET stripped == IF error.type = "dict" THEN strip(error.message)
                                           ELSE <<"Adobe job failed">>
    IN  IF stripped = <<>> THEN <<"Adobe job failed">> ELSE stripped

PollBodies ==
    {NotJson, JsonArray}
    \cup {[json |-> "object", status |-> st, asset |-> a, error |-> NoError] :
            st \in {DoneLit, <<" ", "D", "o", "n", "e">>}, a \in Assets}
    \cup {[json |-> "object", status |-> st, asset |-> NoAsset, error |-> NoError] :
            st \in RawStatuses \ {FailedLit}}
    \cup {[json |-> "object", status |-> FailedLit, asset |-> NoAsset, error |-> e] :
            e \in Errors}

\* status = str(body.get("status", "")).strip().lower()
job_status(body) == lower(strip(body.status))

\* variant: the operands of the subtraction are exchanged
deadline_exceeded_swapped(now_ticks, start_ticks, poll_timeout_seconds) ==
    start_ticks - now_ticks > poll_timeout_seconds * TicksPerSecond

\* time.monotonic() - start > poll_timeout_seconds, in ticks
deadline_exceeded(now_ticks, start_ticks, poll_timeout_seconds) ==
    now_ticks - start_ticks > poll_timeout_seconds * TicksPerSecond

\* time.sleep(max(poll_interval_seconds, 0.1)), in ticks
sleep_ticks(poll_interval_ticks) ==
    IF poll_interval_ticks > MinSleepTicks THEN poll_interval_ticks ELSE MinSleepTicks

\* variant: every status that is not terminal keeps the loop going
status_continues_unless_terminal(status) == status \notin {DoneLit, FailedLit}

\* whether the loop goes round again after this status
status_continues(status) == status = InProgressLit

\* variant: the counter is not stepped
count_attempt_missing(attempts_before) == attempts_before

\* attempts += 1
count_attempt(attempts_before) == attempts_before + 1

\* One pass of the while loop once the deadline check has let it through:
\* the request, the parse and the dispatch on the status.  The result says
\* how the pass ends ("return", "raise" or "continue") and what attempts and
\* last_status are after it.
poll_once(exchange, attempts_before, last_before) ==
    LET sent == http_request(exchange)
        body == exchange.body
        rid == exchange.request_id
        pass(how, value, exc, n, last) ==
            [how |-> how, value |-> value, exc |-> exc, attempts |-> n, last_status |-> last]
        n == count_attempt(attempts_before)
    IN  IF sent.exc # NoException THEN
            pass("raise", None, sent.exc, attempts_before, last_before)
        ELSE IF body.json = "invalid" THEN
            pass("raise", None,
                 AdobeApiErrorWithBody(<<"Job status endpoint returned non-JSON response">>, rid,
                                       sanitize_body_excerpt(body_text(body))),
                 attempts_before, last_before)
        ELSE IF body.json # "object" THEN
            \* attempts and last_status are assigned before body.get fails
            pass("raise", None, Raised("AttributeError"), n, body)
        ELSE IF job_status(body) = DoneLit THEN
            IF body.asset.type = "str" THEN
                pass("raise", None,
                     AdobeApiError(<<"Done status missing asset payload">>, rid,
                                   [response |-> body]), n, body)
            ELSE IF strip(download_uri_text(body.asset)) = <<>> THEN
                pass("raise", None,
                     AdobeApiError(<<"Done status missing asset.downloadUri">>, rid,
                                   [response |-> body]), n, body)
            ELSE
                pass("return",
                     [status |-> "done", asset |-> body.asset, attempts |-> n,
                      request_id |-> rid, response |-> body],
                     NoException, n, body)
        ELSE IF job_status(body) = FailedLit THEN
            LET error_message == failed_job_message(body.error)
            IN  pass("raise", None,
                     AdobeApiError(<<"Adobe createpdf job failed:", " ">> \o error_message, rid,
                                   [job |-> body]), n, body)
        ELSE IF status_continues(job_status(body)) THEN
            pass("continue", None, NoException, n, body)
        ELSE
            pass("raise", None,
                 AdobeApiError(<<"Unexpected job status">>, rid, [response |-> body]),
                 n, body)

\* variant: the timeout error counts the request that was not issued
polling_timed_out_overcounting(attempts_now, last_now) ==
    AdobeApiError(<<"Polling timed out">>, None,
                  [attempts |-> attempts_now + 1, last_status |-> last_now])

\* the error of the deadline check
polling_timed_out(attempts_now, last_now) ==
    AdobeApiError(<<"Polling timed out">>, None,
                  [attempts |-> attempts_now, last_status |-> last_now])

(***************************************************************************)
(* download_asset                                                          *)
(***************************************************************************)
DownloadBodies == {[json |-> "bytes"]}

\* variant: the destination is opened for writing before the request is made
download_asset_opening_first(exchange, output_path) ==
    LET sent == http_request(exchange)
    IN  IF sent.exc # NoException THEN
            [value |-> None, exc |-> sent.exc,
             output_path |-> [writes |-> output_path.writes + 1, content |-> "empty"]]
        ELSE
            [value |-> [bytes_written |-> 1, request_id |-> exchange.request_id],
             exc |-> NoException,
             output_path |-> [writes |-> output_path.writes + 1, content |-> "download"]]

\* download_asset: what it returns or raises, and the file at output_path
\* afterwards (output_path.write_bytes(response.body) follows the request)
download_asset(exchange, output_path) ==
    LET sent == http_request(exchange)
    IN  IF sent.exc # NoException THEN
            [value |-> None, exc |-> sent.exc, output_path |-> output_path]
        ELSE
            [value |-> [bytes_written |-> 1, request_id |-> exchange.request_id],
             exc |-> NoException,
             output_path |-> [writes |-> output_path.writes + 1, content |-> "download"]]

(***************************************************************************)
(* adobe_api_render.py: one run of main                                    *)
(***************************************************************************)
VARIABLES
    pc,                 \* where the run is
    args,               \* command line, payload file and environment of the run
    now,                \* time.monotonic(), in ticks
    credentials,        \* _render_live: credentials
    source_file,        \* the temporary source file: "none", "exists", "removed"
    token,              \* _render_live: token
    upload_info,        \* _render_live: upload_info
    upload_result,      \* _render_live: upload_result
    create_job,         \* _render_live: create_job
    job_result,         \* _render_live: job_result
    start,              \* poll_create_pdf_job: start
    attempts,           \* poll_create_pdf_job: attempts
    last_status,        \* poll_create_pdf_job: last_status
    live_log,           \* the value _render_live returns
    exc,                \* the exception in flight, NoException when none
    output_file,        \* how often the destination file was written, and by whom
    request_log,        \* the request log file: None until written
    exit_code,          \* the return value of main, -1 while it runs
    calls,              \* history: the remote calls issued, in order
    returned,           \* history: the steps that returned normally, in order
    poll_elapsed,       \* history: now - start when the latest poll was issued
    submit_exchange,    \* history: what the network did with the submit request
    last_poll_body,     \* history: the body of the latest poll response
    in_progress_answers \* history: how many poll responses said "in progress"

\* preflight_exec_pdf.py is a program of its own; its state is
VARIABLES
    preflight_pc,        \* where the run is: "idle", "main", "checks", "exit"
    preflight_args,      \* what lies at --pdf and at --rules
    loaded,              \* main: rules, text, metadata, page_count
    report_file,         \* what lies at --report
    preflight_exit_code, \* the return value of main, -1 while it runs
    utc_now,             \* datetime.now(timezone.utc)
    previous_run         \* history: exit code and report of the run before this one

preflight == <<preflight_pc, preflight_args, loaded, report_file, preflight_exit_code,
               utc_now, previous_run>>

\* resolve_credentials, called on its own
VARIABLES
    resolver_pc,         \* "idle", "call", "done"
    resolver_env,        \* the argument, the environment and the files of the call
    resolution           \* what the call returned or raised, None before

resolver == <<resolver_pc, resolver_env, resolution>>

\* route_exec_renderer.py: one run of main
VARIABLES
    router_pc,           \* where the run is
    router_args,         \* --renderer, and whether the file at --payload exists
    router_report,       \* main: report
    router_rc,           \* main: rc, -1 before it is assigned
    router_log,          \* what lies at --request-log, None before it is written
    router_exit_code,    \* the exit status of the process, -1 while it runs
    invoked              \* history: the backends run, each with what it handed back

router == <<router_pc, router_args, router_report, router_rc, router_log,
            router_exit_code, invoked>>

\* prepare_canva_portal_bundle.py: one run of main from the overlay on
VARIABLES
    bundle_pc,           \* where the run is
    node_modules,        \* whether starter_kit/node_modules exists
    starter_kit,         \* what lies in the starter kit at each path of the overlay
    backup_dir,          \* what lies in the backup directory at each path
    changes,             \* main: changes
    overlay_changes,     \* _overlay_source: changes
    bundle_exit_code,    \* the return value of main, -1 while it runs
    kit_before           \* history: the starter kit when the overlay began

bundle == <<bundle_pc, node_modules, starter_kit, backup_dir, changes, overlay_changes,
            bundle_exit_code, kit_before>>

\* the state of the programs that an orchestrator run leaves alone
outside_orchestrator == <<preflight, resolver, router, bundle>>

vars == <<pc, args, now, credentials, source_file, token, upload_info, upload_result,
          create_job, job_result, start, attempts, last_status, live_log, exc,
          output_file, request_log, exit_code, calls, returned, poll_elapsed,
          submit_exchange, last_poll_body, in_progress_answers, preflight, resolver, router, bundle>>

\* the payload file: absent, not acceptable to _load_payload/_validate_payload,
\* acceptable, acceptable with a title that is a number, acceptable with a
\* risk_matrix row that is not an object
Payloads == {"missing", "invalid", "ok", "number_title", "string_row"}

\* the --metadata-json file: readable as an object or not
Metadata == {"ok", "bad"}

Operations == {"create-pdf", "watermark"}

NoFiles == [p \in CredPaths |-> "absent"]

\* the credential environments of the runs: a valid default file, or nothing
RunCredentialEnvs ==
    {[arg |-> "", env_json |-> "", files |-> f,
      primary_id |-> <<>>, primary_secret |-> <<>>, legacy_id |-> <<>>,
      legacy_secret |-> <<>>] :
        f \in {NoFiles, [NoFiles EXCEPT ![DEFAULT_CREDENTIALS_JSON] = "valid"]}}

PollTimeouts == {-1, 0, MaxPollTimeoutSeconds}
PollIntervals == {0, MaxPollIntervalTicks}
ClockOrigin == 3          \* time.monotonic() has an arbitrary origin

Args ==
    [payload : Payloads, mock : BOOLEAN, operation : Operations, metadata : Metadata,
     cred_env : RunCredentialEnvs, poll_timeout_seconds : PollTimeouts,
     poll_interval_ticks : PollIntervals, request_ids : BOOLEAN]

\* the x-request-id header of the response to the next request of the run
NextRequestId == IF args.request_ids THEN RequestId(Len(calls) + 1) ELSE None

\* how long an exchange takes: any time while polling, where time is read
AnyDuration == 0..MaxRequestTicks
FullDuration == {MaxRequestTicks}

NoReport == [written |-> FALSE]
NothingLoaded == [is_loaded |-> FALSE]
NoPreviousRun == [done |-> FALSE]

\* the preflight program is not running
PreflightIdle ==
    /\ preflight_pc = "idle"
    /\ preflight_args = None
    /\ loaded = NothingLoaded
    /\ report_file = NoReport
    /\ preflight_exit_code = -1
    /\ utc_now = 0
    /\ previous_run = NoPreviousRun

\* resolve_credentials is not being called on its own
BundleIdle ==
    /\ bundle_pc = "idle"
    /\ node_modules = FALSE
    /\ starter_kit = None
    /\ backup_dir = None
    /\ changes = <<>>
    /\ overlay_changes = <<>>
    /\ bundle_exit_code = -1
    /\ kit_before = None

RouterIdle ==
    /\ router_pc = "idle"
    /\ router_args = None
    /\ router_report = None
    /\ router_rc = -1
    /\ router_log = None
    /\ router_exit_code = -1
    /\ invoked = <<>>

ResolverIdle ==
    /\ resolver_pc = "idle"
    /\ resolver_env = None
    /\ resolution = None

Init ==
    /\ PreflightIdle
    /\ ResolverIdle
    /\ RouterIdle
    /\ BundleIdle
    /\ pc = "main"
    /\ args \in Args
    /\ now = ClockOrigin
    /\ credentials = None
    /\ source_file = "none"
    /\ token = None
    /\ upload_info = None
    /\ upload_result = None
    /\ create_job = None
    /\ job_result = None
    /\ start = 0
    /\ attempts = 0
    /\ last_status = None
    /\ live_log = None
    /\ exc = NoException
    /\ output_file = [writes |-> 0, content |-> "before"]
    /\ request_log = None
    /\ exit_code = -1
    /\ calls = <<>>
    /\ returned = <<>>
    /\ poll_elapsed = -1
    /\ submit_exchange = None
    /\ last_poll_body = None
    /\ in_progress_answers = 0

locals == <<credentials, token, upload_info, upload_result, create_job, job_result,
            start, attempts, last_status, live_log>>
files == <<source_file, output_file, request_log>>
poll_history == <<poll_elapsed, last_poll_body, in_progress_answers>>
history == <<calls, returned, submit_exchange, poll_history>>

\* the status texts by which a server says that the job is still running
InProgressAnswers ==
    {InProgressLit, <<"I", "n", " ", "P", "r", "o", "g", "r", "e", "s", "s", " ">>}

SaysInProgress(exchange) ==
    /\ exchange.kind = "response"
    /\ exchange.body.json = "object"
    /\ exchange.body.status \in InProgressAnswers

\* main, lines 354-388: everything up to the call of _render_live
main ==
    /\ pc = "main"
    /\ IF args.payload = "missing" \/ args.payload = "invalid" THEN
            \* return 1 before the request log path is even computed
            /\ pc' = "exit"
            /\ exit_code' = 1
            /\ UNCHANGED <<exc, files>>
       ELSE IF args.metadata = "bad" THEN
            /\ pc' = "main_except"
            /\ exc' = Raised("ValueError")
            /\ UNCHANGED <<exit_code, files>>
       ELSE IF args.mock /\ args.payload # "ok" THEN
            \* _render_lines or _pdf_escape meets a value that is not what it expects
            /\ pc' = "main_except"
            /\ exc' = Raised("AttributeError")
            /\ UNCHANGED <<exit_code, files>>
       ELSE IF args.mock THEN
            /\ pc' = "exit"
            /\ exit_code' = 0
            /\ output_file' = [writes |-> output_file.writes + 1, content |-> "mock"]
            /\ request_log' = [mode |-> "mock", operation |-> args.operation]
            /\ UNCHANGED <<exc, source_file>>
       ELSE
            /\ pc' = "render_live"
            /\ UNCHANGED <<exc, exit_code, files>>
    /\ UNCHANGED <<outside_orchestrator, args, now, locals, history>>

\* variant: a step that raised is followed by a new attempt from the token on
ThrowAndRetry(e) ==
    /\ pc' = "token"
    /\ exc' = e

\* the step of _render_live that raised inside the try block: to the finally
\* clause with the exception in flight
Throw(e) ==
    /\ pc' = "finally"
    /\ exc' = e

\* _render_live, lines 205-212: operation check, credentials, content lines
render_live_enter ==
    /\ pc = "render_live"
    /\ IF args.operation # "create-pdf" THEN
            /\ pc' = "main_except"
            /\ exc' = Raised("RuntimeError")
            /\ UNCHANGED credentials
       ELSE IF ~resolve_credentials(args.cred_env).ok THEN
            /\ pc' = "main_except"
            /\ exc' = Raised("CredentialResolutionError")
            /\ UNCHANGED credentials
       ELSE IF args.payload = "string_row" THEN
            /\ pc' = "main_except"
            /\ exc' = Raised("AttributeError")         \* row.get in _render_lines
            /\ credentials' = resolve_credentials(args.cred_env)
       ELSE
            /\ pc' = "tempfile"
            /\ credentials' = resolve_credentials(args.cred_env)
            /\ UNCHANGED exc
    /\ UNCHANGED <<outside_orchestrator, args, now, token, upload_info, upload_result, create_job, job_result,
                   start, attempts, last_status, live_log, files, exit_code, history>>

\* what the file system does when the temporary file is made and written
TempfileOutcomes == {"written", "create_fails", "write_fails"}

\* _render_live, lines 214-222: the with block that creates the source file
\* (delete=False) and writes the joined lines; it precedes the try block
render_live_tempfile ==
    /\ pc = "tempfile"
    /\ \E outcome \in TempfileOutcomes :
        IF outcome = "create_fails" THEN
            /\ pc' = "main_except"
            /\ exc' = Raised("OSError")
            /\ UNCHANGED source_file
        ELSE IF args.payload = "number_title" THEN
            \* "\n".join(lines) with a line that is not a str
            /\ pc' = "main_except"
            /\ exc' = Raised("TypeError")
            /\ source_file' = "exists"
        ELSE IF outcome = "write_fails" THEN
            /\ pc' = "main_except"
            /\ exc' = Raised("OSError")
            /\ source_file' = "exists"
        ELSE
            /\ pc' = "token"
            /\ source_file' = "exists"
            /\ UNCHANGED exc
    /\ UNCHANGED <<outside_orchestrator, args, now, locals, output_file, request_log, exit_code, history>>

\* _render_live, lines 225-229
render_live_token ==
    /\ pc = "token"
    /\ \E exchange \in Responses(TokenBodies, NextRequestId, FullDuration)
                        \cup FailedExchanges(NextRequestId) :
        LET step == request_access_token(exchange)
        IN  /\ calls' = Append(calls, "token")
            /\ now' = now + exchange.ticks
            /\ IF step.exc # NoException THEN
                    /\ Throw(step.exc)
                    /\ UNCHANGED <<token, returned>>
               ELSE /\ pc' = "asset"
                    /\ token' = step.value
                    /\ returned' = Append(returned, "token")
                    /\ UNCHANGED exc
    /\ UNCHANGED <<outside_orchestrator, args, credentials, upload_info, upload_result, create_job, job_result,
                   start, attempts, last_status, live_log, files, exit_code, submit_exchange,
                   poll_history>>

\* _render_live, lines 231-239
render_live_asset ==
    /\ pc = "asset"
    /\ \E exchange \in Responses(AssetBodies, NextRequestId, FullDuration)
                        \cup FailedExchanges(NextRequestId) :
        LET step == create_upload_asset(exchange)
        IN  /\ calls' = Append(calls, "asset")
            /\ now' = now + exchange.ticks
            /\ IF step.exc # NoException THEN
                    /\ Throw(step.exc)
                    /\ UNCHANGED <<upload_info, returned>>
               ELSE /\ pc' = "upload"
                    /\ upload_info' = step.value
                    /\ returned' = Append(returned, "asset")
                    /\ UNCHANGED exc
    /\ UNCHANGED <<outside_orchestrator, args, credentials, token, upload_result, create_job, job_result,
                   start, attempts, last_status, live_log, files, exit_code, submit_exchange,
                   poll_history>>

\* variant: the job is submitted whether or not the upload succeeded
render_live_upload_unchecked ==
    /\ pc = "upload"
    /\ \E exchange \in Responses({None}, NextRequestId, FullDuration)
                        \cup FailedExchanges(NextRequestId) :
        LET step == upload_asset_bytes(exchange)
        IN  /\ calls' = Append(calls, "upload")
            /\ now' = now + exchange.ticks
            /\ pc' = "submit"
            /\ upload_result' = step.value
            /\ returned' = IF step.exc = NoException THEN Append(returned, "upload")
                                                     ELSE returned
            /\ UNCHANGED exc
    /\ UNCHANGED <<outside_orchestrator, args, credentials, token, upload_info, create_job, job_result,
                   start, attempts, last_status, live_log, files, exit_code, submit_exchange,
                   poll_history>>

\* _render_live, lines 241-246
render_live_upload ==
    /\ pc = "upload"
    /\ IF ~has_scheme(upload_info.upload_uri) THEN
            \* urllib.request.Request refuses the URL before anything is sent
            /\ Throw(Raised("ValueError"))
            /\ UNCHANGED <<now, upload_result, calls, returned>>
       ELSE \E exchange \in Responses({None}, NextRequestId, FullDuration)
                             \cup FailedExchanges(NextRequestId) :
            LET step == upload_asset_bytes(exchange)
            IN  /\ calls' = Append(calls, "upload")
                /\ now' = now + exchange.ticks
                /\ IF step.exc # NoException THEN
                        /\ Throw(step.exc)
                        /\ UNCHANGED <<upload_result, returned>>
                   ELSE /\ pc' = "submit"
                        /\ upload_result' = step.value
                        /\ returned' = Append(returned, "upload")
                        /\ UNCHANGED exc
    /\ UNCHANGED <<outside_orchestrator, args, credentials, token, upload_info, create_job, job_result,
                   start, attempts, last_status, live_log, files, exit_code, submit_exchange,
                   poll_history>>

\* _render_live, lines 248-255
render_live_submit ==
    /\ pc = "submit"
    /\ \E exchange \in SubmitResponses(NextRequestId, FullDuration)
                        \cup FailedExchanges(NextRequestId) :
        LET step == submit_create_pdf_job(exchange)
        IN  /\ calls' = Append(calls, "submit")
            /\ submit_exchange' = exchange
            /\ now' = now + exchange.ticks
            /\ IF step.exc # NoException THEN
                    /\ Throw(step.exc)
                    /\ UNCHANGED <<create_job, returned>>
               ELSE /\ pc' = "poll"
                    /\ create_job' = step.value
                    /\ returned' = Append(returned, "submit")
                    /\ UNCHANGED exc
    /\ UNCHANGED <<outside_orchestrator, args, credentials, token, upload_info, upload_result, job_result,
                   start, attempts, last_status, live_log, files, exit_code, poll_history>>

\* poll_create_pdf_job, lines 307-309: entry of the polling loop
poll_create_pdf_job_enter ==
    /\ pc = "poll"
    /\ pc' = "polling"
    /\ start' = now
    /\ attempts' = 0
    /\ last_status' = None
    /\ UNCHANGED <<outside_orchestrator, args, now, credentials, token, upload_info, upload_result, create_job,
                   job_result, live_log, exc, files, exit_code, history>>

\* poll_create_pdf_job, lines 311-386: one pass of the while loop, from the
\* deadline check to the return, the raise or the end of the sleep
poll_create_pdf_job ==
    /\ pc = "polling"
    /\ IF deadline_exceeded(now, start, args.poll_timeout_seconds) THEN
            /\ Throw(polling_timed_out(attempts, last_status))
            /\ UNCHANGED <<now, job_result, attempts, last_status, calls, returned,
                           poll_history>>
       ELSE IF ~has_scheme(create_job.location) THEN
            \* urllib.request.Request refuses the URL before anything is sent
            /\ Throw(Raised("ValueError"))
            /\ UNCHANGED <<now, job_result, attempts, last_status, calls, returned,
                           poll_history>>
       ELSE \E exchange \in Responses(PollBodies, NextRequestId, AnyDuration)
                             \cup FailedExchanges(NextRequestId) :
            LET pass == poll_once(exchange, attempts, last_status)
            IN  /\ calls' = Append(calls, "poll")
                /\ poll_elapsed' = now - start
                /\ last_poll_body' = exchange.body
                /\ in_progress_answers' =
                        in_progress_answers + IF SaysInProgress(exchange) THEN 1 ELSE 0
                /\ attempts' = pass.attempts
                /\ last_status' = pass.last_status
                /\ IF pass.how = "raise" THEN
                        /\ Throw(pass.exc)
                        /\ now' = now + exchange.ticks
                        /\ UNCHANGED <<job_result, returned>>
                   ELSE IF pass.how = "return" THEN
                        /\ pc' = "download"
                        /\ job_result' = pass.value
                        /\ now' = now + exchange.ticks
                        /\ returned' = Append(returned, "poll")
                        /\ UNCHANGED exc
                   ELSE /\ pc' = "polling"
                        /\ now' = now + exchange.ticks + sleep_ticks(args.poll_interval_ticks)
                        /\ UNCHANGED <<job_result, returned, exc>>
    /\ UNCHANGED <<outside_orchestrator, args, credentials, token, upload_info, upload_result, create_job,
                   start, live_log, files, exit_code, submit_exchange>>

\* _render_live, lines 266-300: the download and the value returned
render_live_download ==
    /\ pc = "download"
    /\ IF strip(download_uri_text(job_result.asset)) = <<>> THEN
            /\ Throw(Raised("RuntimeError"))
            /\ UNCHANGED <<now, live_log, output_file, calls, returned>>
       ELSE IF ~has_scheme(strip(download_uri_text(job_result.asset))) THEN
            \* urllib.request.Request refuses the URL before anything is sent
            /\ Throw(Raised("ValueError"))
            /\ UNCHANGED <<now, live_log, output_file, calls, returned>>
       ELSE \E exchange \in Responses(DownloadBodies, NextRequestId, FullDuration)
                             \cup FailedExchanges(NextRequestId) :
            LET step == download_asset(exchange, output_file)
            IN  /\ calls' = Append(calls, "download")
                /\ now' = now + exchange.ticks
                /\ output_file' = step.output_path
                /\ IF step.exc # NoException THEN
                        /\ Throw(step.exc)
                        /\ UNCHANGED <<live_log, returned>>
                   ELSE /\ pc' = "finally"
                        /\ returned' = Append(returned, "download")
                        /\ live_log' =
                            [mode |-> "live", operation |-> args.operation,
                             credentials |-> credentials_summary(credentials),
                             token |-> [token_type |-> token.token_type,
                                        expires_in |-> token.expires_in,
                                        request_id |-> token.request_id],
                             steps |-> [asset |-> upload_info, upload |-> upload_result,
                                        create_job |-> create_job,
                                        job_result |->
                                            [status |-> job_result.status,
                                             attempts |-> job_result.attempts,
                                             request_id |-> job_result.request_id],
                                        download |-> step.value]]
                        /\ UNCHANGED exc
    /\ UNCHANGED <<outside_orchestrator, args, credentials, source_file, token, upload_info, upload_result,
                   create_job, job_result, start, attempts, last_status, request_log,
                   exit_code, submit_exchange, poll_history>>

\* _render_live, lines 301-303: the finally clause, then out of _render_live
render_live_finally ==
    /\ pc = "finally"
    /\ source_file' = IF source_file = "exists" THEN "removed" ELSE source_file
    /\ pc' = IF exc = NoException THEN "main_return" ELSE "main_except"
    /\ UNCHANGED <<outside_orchestrator, args, now, locals, exc, output_file, request_log, exit_code, history>>

\* main, lines 402-407: the log of a live run that succeeded
main_return ==
    /\ pc = "main_return"
    /\ pc' = "exit"
    /\ request_log' = live_log
    /\ exit_code' = 0
    /\ UNCHANGED <<outside_orchestrator, args, now, locals, exc, source_file, output_file, history>>

\* AdobeApiError.to_dict
to_dict(e) ==
    [message |-> e.message, request_id |-> e.request_id,
     body_excerpt |-> e.body_excerpt, details |-> e.details]

\* main, lines 408-424: the except clauses
main_except ==
    /\ pc = "main_except"
    /\ pc' = "exit"
    /\ exit_code' = 1
    /\ IF exc.type = "CredentialResolutionError" THEN
            UNCHANGED request_log
       ELSE IF exc.type = "AdobeApiError" THEN
            request_log' = [mode |-> "live", error |-> to_dict(exc)]
       ELSE
            UNCHANGED request_log
    /\ UNCHANGED <<outside_orchestrator, args, now, locals, exc, source_file, output_file, history>>

Next ==
    \/ main
    \/ render_live_enter
    \/ render_live_tempfile
    \/ render_live_token
    \/ render_live_asset
    \/ render_live_upload
    \/ render_live_submit
    \/ poll_create_pdf_job_enter
    \/ poll_create_pdf_job
    \/ render_live_download
    \/ render_live_finally
    \/ main_return
    \/ main_except

Spec == Init /\ [][Next]_vars

FairSpec == Spec /\ WF_vars(Next)

(***************************************************************************)
(* Properties                                                              *)
(***************************************************************************)
Range(seq) == {seq[i] : i \in 1..Len(seq)}
Count(x, seq) == Cardinality({i \in 1..Len(seq) : seq[i] = x})
Last(seq) == seq[Len(seq)]
NumPolls == Count("poll", calls)
TimeoutTicks == args.poll_timeout_seconds * TicksPerSecond

\* the place of each remote call in the order of a live run
StepRank(step) ==
    CASE step = "token" -> 1
      [] step = "asset" -> 2
      [] step = "upload" -> 3
      [] step = "submit" -> 4
      [] step = "poll" -> 5
      [] step = "download" -> 6

StepOfRank(rank) == CHOOSE step \in {"token", "asset", "upload", "submit", "poll",
                                     "download"} : StepRank(step) = rank

\* C1: the remote calls of a live run are issued in the order token, asset,
\* upload, submit, poll (one or more), download; each call follows the call
\* of the step before it, only polls repeat, and a call is issued only once
\* the step before it has returned normally.
C1_CallsInFixedOrder ==
    /\ calls # <<>> => calls[1] = "token"
    /\ \A i \in 1..Len(calls) - 1 :
        \/ StepRank(calls[i + 1]) = StepRank(calls[i]) + 1
        \/ calls[i] = "poll" /\ calls[i + 1] = "poll"
    /\ \A step \in {"token", "asset", "upload", "submit", "download"} :
        Count(step, calls) <= 1
    /\ \A i \in 1..Len(calls) :
        StepRank(calls[i]) > 1 => StepOfRank(StepRank(calls[i]) - 1) \in Range(returned)

C1_Witness ==
    /\ pc = "exit"
    /\ calls = <<"token", "asset", "upload", "submit", "poll", "poll", "download">>

\* C2: a pass of the polling loop that receives a status body ends the loop
\* on done and on failed, raises "Unexpected job status" at once on any
\* status other than done, failed and in progress, and stays in the loop
\* only on in progress; so a poll is issued after an earlier poll only when
\* the earlier response said in progress.
C2_PollAgainOnlyAfterInProgress ==
    [][/\ (calls' # calls /\ Last(calls') = "poll" /\ NumPolls > 0)
            => /\ last_poll_body # None
               /\ last_poll_body.json = "object"
               /\ last_poll_body.status \in InProgressAnswers
       /\ (/\ calls' # calls
           /\ Last(calls') = "poll"
           /\ last_poll_body' # None
           /\ last_poll_body'.json = "object")
            => LET said == last_poll_body'.status
               IN  /\ said \in InProgressAnswers => pc' = "polling"
                   /\ said \notin InProgressAnswers => pc' # "polling"
                   /\ said \in {FailedLit} => exc'.type = "AdobeApiError"
                   /\ said \in {<<"q", "u", "e", "u", "e", "d">>, <<>>}
                        => /\ pc' = "finally"
                           /\ exc'.type = "AdobeApiError"
                           /\ exc'.message = <<"Unexpected job status">>
      ]_vars

C2_Witness ==
    /\ NumPolls >= 2
    /\ exc.type = "AdobeApiError"
    /\ exc.message = <<"Unexpected job status">>

\* C3: every run ends, whatever the server answers, and every poll request
\* is issued at a time when no more than poll_timeout_seconds have passed
\* since the polling loop was entered.
C3_PollingBoundedByDeadline ==
    /\ [](poll_elapsed <= TimeoutTicks \/ NumPolls = 0)
    /\ <>(pc = "exit")

C3_Witness ==
    /\ pc = "exit"
    /\ exc.type = "AdobeApiError"
    /\ exc.message = <<"Polling timed out">>
    /\ NumPolls >= 3
    /\ in_progress_answers = NumPolls

\* C4: the timeout error of the polling loop reports as details.attempts the
\* number of poll requests issued in the run and as details.last_status the
\* body of the last poll response.
C4_TimeoutReportsAttempts ==
    (exc.type = "AdobeApiError" /\ exc.message = <<"Polling timed out">>)
        => /\ exc.details.attempts = NumPolls
           /\ exc.details.last_status = last_poll_body

C4_Witness ==
    /\ exc.type = "AdobeApiError"
    /\ exc.message = <<"Polling timed out">>
    /\ exc.details.attempts = 2
    /\ NumPolls = 2

\* the latest poll response is done with a download URI that is not blank
AnsweredDone ==
    /\ last_poll_body # None
    /\ last_poll_body.json = "object"
    /\ last_poll_body.status = DoneLit
    /\ last_poll_body.asset.type = "dict"
    /\ last_poll_body.asset.uri_type = "string"
    /\ last_poll_body.asset.downloadUri \notin {<<>>, <<" ">>}

\* C5: when the poll endpoint has answered in progress k-1 times and then
\* done with a download URI, poll_create_pdf_job has returned a result with
\* status done and attempts = k, the number of polls issued.
C5_DoneAfterKPolls ==
    AnsweredDone
        => /\ job_result # None
           /\ "poll" \in Range(returned)
           /\ job_result.status = "done"
           /\ job_result.attempts = in_progress_answers + 1
           /\ job_result.attempts = NumPolls

C5_Witness ==
    /\ AnsweredDone
    /\ in_progress_answers = 2
    /\ job_result.attempts = 3

\* a remote step other than polling was issued and did not return
FailedStep(step) == step \in Range(calls) /\ step \notin Range(returned)

\* C6: once the token, asset, upload, submit or download call has failed,
\* the error stays the error of the run, no remote call is issued any more
\* (so the step is not retried), and the run ends with a non-zero code.
C6_FailedStepEndsRun ==
    [][(\E step \in {"token", "asset", "upload", "submit", "download"} : FailedStep(step))
        => /\ exc # NoException
           /\ exc' = exc
           /\ calls' = calls
           /\ pc' \in {"main_except", "exit"}
           /\ pc' = "exit" => exit_code' = 1
      ]_vars

C6_Witness ==
    /\ pc = "exit"
    /\ FailedStep("submit")
    /\ exit_code = 1

\* C7: whenever a remote call of the run fails, the exception that leaves
\* the orchestrator function is an AdobeApiError.
C7_OnlyAdobeApiErrorEscapes ==
    (calls # <<>> /\ exc # NoException) => exc.type = "AdobeApiError"

\* C8: once _render_live has been left, on whatever path, the temporary
\* source file does not exist.
C8_SourceFileRemoved ==
    pc \in {"main_return", "main_except", "exit"} => source_file # "exists"

\* C9: a run of main that ends on an exception has written a request log
\* that records the error, and exits with a non-zero code.
C9_FailureWritesLog ==
    (pc = "exit" /\ exc # NoException)
        => /\ exit_code # 0
           /\ request_log # None
           /\ "error" \in DOMAIN request_log

\* C10: when the submit response carries no Location header, or a blank
\* one, submit_create_pdf_job raises AdobeApiError and the run issues no
\* poll request and no download request.
NoLocation ==
    /\ submit_exchange # None
    /\ submit_exchange.kind = "response"
    /\ submit_exchange.location \in {<<>>, <<" ">>}

C10_NoLocationNoPoll ==
    NoLocation
        => /\ exc.type = "AdobeApiError"
           /\ exc.message = <<"Create PDF response missing location header">>
           /\ "poll" \notin Range(calls)
           /\ "download" \notin Range(calls)
           /\ "submit" \notin Range(returned)

C10_Witness ==
    /\ NoLocation
    /\ pc = "exit"
    /\ calls = <<"token", "asset", "upload", "submit">>

\* C11: every result poll_create_pdf_job returns has status done, at least
\* one attempt, and an asset whose downloadUri is a string that is not blank.
C11_ReturnedResultHasUri ==
    job_result # None
        => /\ job_result.status = "done"
           /\ job_result.attempts >= 1
           /\ job_result.asset.type = "dict"
           /\ job_result.asset.uri_type = "string"
           /\ strip(job_result.asset.downloadUri) # <<>>

\* t occurs in s as a run of consecutive elements
Contains(s, t) ==
    \E i \in 0..(Len(s) - Len(t)) : \A j \in 1..Len(t) : s[i + j] = t[j]

\* m without its leading and trailing blanks
Trimmed(m) ==
    LET inked == {i \in 1..Len(m) : m[i] # " "}
    IN  IF inked = {} THEN <<>>
        ELSE SubSeq(m, CHOOSE i \in inked : \A k \in inked : i <= k,
                       CHOOSE i \in inked : \A k \in inked : i >= k)

\* the run ended on the error of a failed job whose body embeds a message
JobFailedWithMessage ==
    /\ exc.type = "AdobeApiError"
    /\ "job" \in DOMAIN exc.details
    /\ exc.details.job.error.type = "dict"

\* C12 as stated: the message of the error contains the embedded message of
\* the failed response unchanged.
C12_MessageVerbatim ==
    JobFailedWithMessage => Contains(exc.message, exc.details.job.error.message)

\* C12 as amended: the message of the error contains the embedded message
\* without its leading and trailing whitespace, and the default text
\* "Adobe job failed" when nothing is left of it.
C12_MessageTrimmed ==
    JobFailedWithMessage
        => LET m == Trimmed(exc.details.job.error.message)
           IN  /\ Contains(exc.message, m)
               /\ m = <<>> => Contains(exc.message, <<"Adobe job failed">>)

C12_Witness ==
    /\ JobFailedWithMessage
    /\ exc.details.job.error.message = <<" ", "bad asset", " ">>
    /\ pc = "exit"

(***************************************************************************)
(* preflight_exec_pdf.py                                                   *)
(*                                                                         *)
(* Texts, phrases, metadata keys and metadata values are character         *)
(* sequences.  A list-valued field of the rules is a record                *)
(*   present  whether the rules object has the key                         *)
(*   items    the strings of the list (str(item) of a string is the string)*)
(* so that rules.get(key, []) is the field's items.                        *)
(***************************************************************************)
MaxTextLen == 2
MaxPageCount == 2

Absent == [present |-> FALSE, items |-> <<>>]
List(items) == [present |-> TRUE, items |-> items]

\* rules.get("redaction", {}): an object, another JSON value, or no such key
NoRedaction == [kind |-> "absent", pending_patterns |-> Absent, sensitive_terms |-> Absent]
NotAnObject == [kind |-> "text", pending_patterns |-> Absent, sensitive_terms |-> Absent]
Redaction(pending, sensitive) ==
    [kind |-> "dict", pending_patterns |-> pending, sensitive_terms |-> sensitive]

\* rules.get("min_pages", 1): an integer, a text that is no number, or no such key
NoMinPages == [kind |-> "absent", value |-> 0]
MinPages(n) == [kind |-> "int", value |-> n]
NotANumber == [kind |-> "text", value |-> 0]

\* item.lower() in lower, where lower = text.lower()
occurs_in_exact(item, text) == Contains(text, item)

occurs_in(item, text) == Contains(lower(text), lower(item))

check_required_phrases(text, rules) ==
    LET required == rules.required_phrases.items
        missing == SelectSeq(required, LAMBDA phrase : ~occurs_in(phrase, text))
    IN  [passed |-> Len(missing) = 0,
         details |-> [required |-> required, missing |-> missing]]

check_required_citations(text, rules) ==
    LET required == rules.required_citations.items
        missing == SelectSeq(required, LAMBDA citation : ~occurs_in(citation, text))
    IN  [passed |-> Len(missing) = 0,
         details |-> [required |-> required, missing |-> missing]]

check_prohibited_patterns(text, rules) ==
    LET prohibited == rules.prohibited_patterns.items
        hits == SelectSeq(prohibited, LAMBDA pattern : occurs_in(pattern, text))
    IN  [passed |-> Len(hits) = 0,
         details |-> [prohibited |-> prohibited, hits |-> hits]]

redaction_passed_without_leaks(pending_hits, leak_hits) == pending_hits = <<>>

redaction_passed(pending_hits, leak_hits) == pending_hits = <<>> /\ leak_hits = <<>>

check_redaction(text, rules) ==
    LET redaction == IF rules.redaction.kind = "dict" THEN rules.redaction ELSE NoRedaction
        pending_patterns == redaction.pending_patterns.items
        sensitive_terms == redaction.sensitive_terms.items
        pending_hits == SelectSeq(pending_patterns, LAMBDA item : occurs_in(item, text))
        leak_hits == SelectSeq(sensitive_terms, LAMBDA item : occurs_in(item, text))
    IN  [passed |-> redaction_passed(pending_hits, leak_hits),
         details |-> [pending_patterns |-> pending_patterns,
                      pending_hits |-> pending_hits,
                      sensitive_terms |-> sensitive_terms,
                      sensitive_term_hits |-> leak_hits]]

\* the values _effective_value takes for no value at all
NullSentinels ==
    { <<"n", "u", "l", "l", "o", "b", "j", "e", "c", "t">>,
      <<"n", "u", "l", "l">>,
      <<"n", "o", "n", "e">> }

effective_value_unfiltered(value) == strip(value)

effective_value(value) ==
    LET clean == strip(value)
    IN  IF lower(clean) \in NullSentinels THEN <<>> ELSE clean

\* metadata.get(key, ""); metadata is the sequence of the dict's items
metadata_get(metadata, key) ==
    IF \E i \in DOMAIN metadata : metadata[i].key = key
    THEN metadata[CHOOSE i \in DOMAIN metadata : metadata[i].key = key].value
    ELSE <<>>

pattern_hit_exact(clean_value, pattern) ==
    clean_value # <<>> /\ pattern # <<>> /\ Contains(clean_value, pattern)

\* the test of the two nested loops: the value counts and the pattern is in it
pattern_hit(clean_value, pattern) ==
    clean_value # <<>> /\ pattern # <<>> /\ Contains(lower(clean_value), pattern)

check_metadata(metadata, rules) ==
    LET keys == rules.forbidden_metadata_keys.items
        patterns == rules.forbidden_metadata_patterns.items
        forbidden_keys == [i \in DOMAIN keys |-> lower(keys[i])]
        forbidden_patterns == [i \in DOMAIN patterns |-> lower(patterns[i])]
        present_forbidden_keys ==
            SelectSeq(forbidden_keys,
                      LAMBDA key : effective_value(metadata_get(metadata, key)) # <<>>)
        \* every (item, pattern) pair in the order of the loops
        n == Len(forbidden_patterns)
        pairs == [k \in 1..(Len(metadata) * n) |->
                     LET item == metadata[((k - 1) \div n) + 1]
                     IN  [key |-> item.key,
                          pattern |-> forbidden_patterns[((k - 1) % n) + 1],
                          value |-> effective_value(item.value)]]
        pattern_hits == SelectSeq(pairs, LAMBDA hit : pattern_hit(hit.value, hit.pattern))
    IN  [passed |-> present_forbidden_keys = <<>> /\ pattern_hits = <<>>,
         details |-> [metadata |-> metadata,
                      forbidden_keys |-> forbidden_keys,
                      present_forbidden_keys |-> present_forbidden_keys,
                      forbidden_patterns |-> forbidden_patterns,
                      pattern_hits |-> pattern_hits]]

\* int(rules.get("min_pages", 1)) raises ValueError for a text that is no number
int_raises(rules) == rules.min_pages.kind = "text"

check_min_pages_of_two(page_count, rules) ==
    LET min_pages == IF rules.min_pages.kind = "int" THEN rules.min_pages.value ELSE 2
    IN  [passed |-> page_count >= min_pages,
         details |-> [min_pages |-> min_pages, actual_pages |-> page_count]]

check_min_pages(page_count, rules) ==
    LET min_pages == IF rules.min_pages.kind = "int" THEN rules.min_pages.value ELSE 1
    IN  [passed |-> page_count >= min_pages,
         details |-> [min_pages |-> min_pages, actual_pages |-> page_count]]

record(name, result) ==
    [name |-> name, passed |-> result.passed, details |-> result.details]

run_checks(text, metadata, page_count, rules) ==
    << record("privilege_watermark", check_required_phrases(text, rules)),
       record("citation_integrity", check_required_citations(text, rules)),
       record("placeholder_rejection", check_prohibited_patterns(text, rules)),
       record("redaction_verification", check_redaction(text, rules)),
       record("metadata_hygiene", check_metadata(metadata, rules)),
       record("min_page_count", check_min_pages(page_count, rules)) >>

any_passed(checks) == \E i \in DOMAIN checks : checks[i].passed

all_passed(checks) == \A i \in DOMAIN checks : checks[i].passed

\* what a PDF file can hold: its text, its document information, its pages
TextAlphabet == {"a", "B"}
Texts == UNION {[1..n -> TextAlphabet] : n \in 0..MaxTextLen}
PageCounts == 0..MaxPageCount

AuthorKey == <<"/", "A", "u", "t", "h", "o", "r">>
TitleKey == <<"/", "T", "i", "t", "l", "e">>
AuthorValues ==
    { <<" ">>,
      <<"N", "u", "l", "l">>,
      <<" ", "N", "o", "n", "e", " ">>,
      <<"N", "u", "l", "l", "O", "b", "j", "e", "c", "t">>,
      <<"J", "a", "n", "e">> }
TitleValue == <<"J", "a", "N", "e">>

InfoItem(key, value) == [key |-> key, is_none |-> FALSE, value |-> value]
NoneItem(key) == [key |-> key, is_none |-> TRUE, value |-> <<>>]
Infos ==
    { author \o title :
        author \in {<<>>, <<NoneItem(AuthorKey)>>}
                       \cup {<<InfoItem(AuthorKey, v)>> : v \in AuthorValues},
        title \in {<<>>, <<InfoItem(TitleKey, TitleValue)>>} }

\* every text with two document informations, every document information with two texts
PlainInfos == {<<>>, <<InfoItem(AuthorKey, <<"J", "a", "n", "e">>), InfoItem(TitleKey, TitleValue)>>}
PlainTexts == {<<>>, <<"a", "B">>}

MissingPdf == [exists |-> FALSE, text |-> <<>>, info |-> <<>>, pages |-> 0]
PdfFiles ==
    {MissingPdf}
        \cup [exists : {TRUE}, text : Texts, info : PlainInfos, pages : PageCounts]
        \cup [exists : {TRUE}, text : PlainTexts, info : Infos, pages : PageCounts]

\* the rule sets a rules file can hold
RequiredPhrases == List(<< <<"A", "b">>, <<"b">> >>)
RequiredCitations == List(<< <<"B", "A">> >>)
ProhibitedPatterns == List(<< <<"a", "a">> >>)
PendingPatterns == List(<< <<"A">> >>)
SensitiveTerms == List(<< <<"b">> >>)
ForbiddenMetadataKeys == List(<< <<"A", "u", "t", "h", "o", "r">> >>)
ForbiddenMetadataPatterns == List(<< <<>>, <<"n", "e">>, <<"A", "N">> >>)

NoRules ==
    [required_phrases |-> Absent, required_citations |-> Absent,
     prohibited_patterns |-> Absent, redaction |-> NoRedaction,
     forbidden_metadata_keys |-> Absent, forbidden_metadata_patterns |-> Absent,
     min_pages |-> NoMinPages]
EmptyRules ==
    { [required_phrases |-> List(<<>>), required_citations |-> List(<<>>),
       prohibited_patterns |-> List(<<>>), redaction |-> r,
       forbidden_metadata_keys |-> List(<<>>), forbidden_metadata_patterns |-> List(<<>>),
       min_pages |-> NoMinPages] :
        r \in {Redaction(Absent, Absent), Redaction(List(<<>>), List(<<>>))} }
TextRules ==
    { [NoRules EXCEPT !.required_phrases = p, !.required_citations = c,
                      !.prohibited_patterns = h, !.redaction = r] :
        p \in {Absent, RequiredPhrases}, c \in {Absent, RequiredCitations},
        h \in {Absent, ProhibitedPatterns},
        r \in {NoRedaction, NotAnObject, Redaction(PendingPatterns, SensitiveTerms)} }
MetadataRules ==
    { [NoRules EXCEPT !.forbidden_metadata_keys = k, !.forbidden_metadata_patterns = f,
                      !.min_pages = m] :
        k \in {Absent, ForbiddenMetadataKeys}, f \in {Absent, ForbiddenMetadataPatterns},
        m \in {NoMinPages, MinPages(MaxPageCount), NotANumber} }
StrictRules ==
    [required_phrases |-> RequiredPhrases, required_citations |-> RequiredCitations,
     prohibited_patterns |-> ProhibitedPatterns,
     redaction |-> Redaction(PendingPatterns, SensitiveTerms),
     forbidden_metadata_keys |-> ForbiddenMetadataKeys,
     forbidden_metadata_patterns |-> ForbiddenMetadataPatterns,
     min_pages |-> MinPages(MaxPageCount)]
RuleSets == EmptyRules \cup TextRules \cup MetadataRules \cup {StrictRules}

RulesFiles ==
    [state : {"missing", "not_json", "not_object"}, data : {NoRules}]
        \cup [state : {"object"}, data : RuleSets]

PreflightArgs == [pdf : PdfFiles, rules : RulesFiles]

\* _load_rules raises for a file that is no JSON or whose JSON is no object
load_rules_raises(file) == file.state \in {"not_json", "not_object"}

load_rules(file) == file.data

\* str(key).lstrip("/").lower()
RECURSIVE lstrip_slash(_)
lstrip_slash(key) ==
    IF key = <<>> THEN <<>>
    ELSE IF Head(key) = "/" THEN lstrip_slash(Tail(key)) ELSE key

clean_key(key) == lower(lstrip_slash(key))

\* the metadata dict of _extract_with_pypdf, as the sequence of its items
extract_metadata(info) ==
    LET kept == SelectSeq(info, LAMBDA item : ~item.is_none)
    IN  [i \in DOMAIN kept |-> [key |-> clean_key(kept[i].key), value |-> strip(kept[i].value)]]

load_pdf(pdf) ==
    [text |-> pdf.text, metadata |-> extract_metadata(pdf.info), page_count |-> pdf.pages]

orchestrator == <<pc, args, now, locals, exc, files, exit_code, history>>

\* the orchestrator is not running
OrchestratorIdle ==
    /\ pc = "idle"
    /\ args = None
    /\ now = ClockOrigin
    /\ credentials = None
    /\ source_file = "none"
    /\ token = None
    /\ upload_info = None
    /\ upload_result = None
    /\ create_job = None
    /\ job_result = None
    /\ start = 0
    /\ attempts = 0
    /\ last_status = None
    /\ live_log = None
    /\ exc = NoException
    /\ output_file = [writes |-> 0, content |-> "before"]
    /\ request_log = None
    /\ exit_code = -1
    /\ calls = <<>>
    /\ returned = <<>>
    /\ poll_elapsed = -1
    /\ submit_exchange = None
    /\ last_poll_body = None
    /\ in_progress_answers = 0

\* the state of the programs that a preflight run leaves alone
outside_preflight == <<orchestrator, resolver, router, bundle>>

PreflightInit ==
    /\ OrchestratorIdle
    /\ ResolverIdle
    /\ RouterIdle
    /\ BundleIdle
    /\ preflight_pc = "main"
    /\ preflight_args \in PreflightArgs
    /\ loaded = NothingLoaded
    /\ report_file = NoReport
    /\ preflight_exit_code = -1
    /\ utc_now = 0
    /\ previous_run = NoPreviousRun

\* return code from main
preflight_return(code) ==
    /\ preflight_pc' = "exit"
    /\ preflight_exit_code' = code

\* main, lines 184-199: the two files are looked up and loaded
preflight_main ==
    /\ preflight_pc = "main"
    /\ IF ~preflight_args.pdf.exists
       THEN preflight_return(1) /\ UNCHANGED loaded
       ELSE IF preflight_args.rules.state = "missing"
       THEN preflight_return(1) /\ UNCHANGED loaded
       ELSE IF load_rules_raises(preflight_args.rules)
       THEN preflight_return(1) /\ UNCHANGED loaded
       ELSE LET pdf == load_pdf(preflight_args.pdf)
            IN  /\ loaded' = [is_loaded |-> TRUE,
                              rules |-> load_rules(preflight_args.rules),
                              text |-> pdf.text,
                              metadata |-> pdf.metadata,
                              page_count |-> pdf.page_count]
                /\ preflight_pc' = "checks"
                /\ UNCHANGED preflight_exit_code
    /\ UNCHANGED <<outside_preflight, preflight_args, report_file, utc_now, previous_run>>

build_report_dated(status, timestamp_utc, page_count, checks) ==
    [written |-> TRUE,
     status |-> status,
     timestamp_utc |-> timestamp_utc,
     pdf |-> "pdf_path",
     rules |-> "rules_path",
     page_count |-> page_count + timestamp_utc,
     checks |-> checks]

build_report(status, timestamp_utc, page_count, checks) ==
    [written |-> TRUE,
     status |-> status,
     timestamp_utc |-> timestamp_utc,
     pdf |-> "pdf_path",
     rules |-> "rules_path",
     page_count |-> page_count,
     checks |-> checks]

exit_code_of_same(status) == IF status = "PASS" THEN 0 ELSE 1

\* return 0 if report["status"] == "PASS" else 2
exit_code_of(status) == IF status = "PASS" THEN 0 ELSE 2

\* main, lines 201-229: the six checks, the report and the exit code
preflight_evaluate ==
    /\ preflight_pc = "checks"
    /\ IF int_raises(loaded.rules)
       THEN preflight_return(1) /\ UNCHANGED report_file
       ELSE LET checks == run_checks(loaded.text, loaded.metadata, loaded.page_count,
                                     loaded.rules)
                status == IF all_passed(checks) THEN "PASS" ELSE "FAIL"
            IN  /\ report_file' = build_report(status, utc_now, loaded.page_count, checks)
                /\ preflight_return(exit_code_of(status))
    /\ UNCHANGED <<outside_preflight, preflight_args, loaded, utc_now, previous_run>>

\* the program is started once more on the same files, at the same time or later
preflight_rerun ==
    /\ preflight_pc = "exit"
    /\ ~previous_run.done
    /\ previous_run' = [done |-> TRUE, exit_code |-> preflight_exit_code,
                        report |-> report_file, loaded |-> loaded]
    /\ utc_now' \in {utc_now, utc_now + 1}
    /\ preflight_pc' = "main"
    /\ preflight_exit_code' = -1
    /\ loaded' = NothingLoaded
    /\ UNCHANGED <<outside_preflight, preflight_args, report_file>>

PreflightNext ==
    \/ preflight_main
    \/ preflight_evaluate
    \/ preflight_rerun

PreflightSpec == PreflightInit /\ [][PreflightNext]_vars

(***************************************************************************)
(* Properties of the preflight verifier                                    *)
(***************************************************************************)
CheckNames ==
    <<"privilege_watermark", "citation_integrity", "placeholder_rejection",
      "redaction_verification", "metadata_hygiene", "min_page_count">>

PreflightRules == preflight_args.rules.data
ReportCheck(i) == report_file.checks[i]

\* two characters that differ at most in letter case
SameLetter(a, b) ==
    \/ a = b
    \/ \E i \in DOMAIN UpperCase : {a, b} = {UpperCase[i], LowerCase[i]}

\* t occurs in s as a substring when letter case is ignored
OccursIgnoringCase(t, s) ==
    \E i \in 0..(Len(s) - Len(t)) : \A j \in 1..Len(t) : SameLetter(s[i + j], t[j])

\* C13: a written report has status PASS exactly when every check passed, and
\* it holds the six checks in their fixed order, each with its details,
\* whichever of them failed.
C13_StatusIsFoldOfSixChecks ==
    report_file.written
        => /\ [i \in DOMAIN report_file.checks |-> ReportCheck(i).name] = CheckNames
           /\ \A i \in DOMAIN report_file.checks :
                  DOMAIN ReportCheck(i) = {"name", "passed", "details"}
           /\ report_file.status \in {"PASS", "FAIL"}
           /\ report_file.status = "PASS"
                  <=> \A i \in DOMAIN report_file.checks : ReportCheck(i).passed

C13_Witness ==
    /\ report_file.written
    /\ report_file.status = "FAIL"
    /\ ~ReportCheck(1).passed
    /\ ReportCheck(3).passed
    /\ ~ReportCheck(6).passed

\* the items of the PDF's document information that reach the metadata map
Info == SelectSeq(preflight_args.pdf.info, LAMBDA item : ~item.is_none)

\* a value that says nothing: blank, or one of the three null words in any
\* letter case, surrounding whitespace ignored
EffectivelyEmpty(value) ==
    LET t == strip(value)
    IN  \/ t = <<>>
        \/ \E word \in NullSentinels :
               Len(word) = Len(t) /\ \A j \in 1..Len(t) : SameLetter(t[j], word[j])

\* the item's key is the forbidden key, letter case and leading "/" aside
IsForbiddenItem(item, key) ==
    LET k == lstrip_slash(item.key)
    IN  Len(k) = Len(key) /\ \A j \in 1..Len(k) : SameLetter(k[j], key[j])

\* C14: for a forbidden metadata key that is present in the metadata map,
\* metadata_hygiene fails when the key's value is neither empty nor one of the
\* sentinels nullobject, null, none (any letter case, surrounding whitespace
\* ignored); with an empty or sentinel value it passes, this key being the
\* only forbidden one and no forbidden pattern being configured.
C14_ForbiddenKeyBySentinel ==
    report_file.written
        => \A i \in DOMAIN Info :
           \A k \in DOMAIN PreflightRules.forbidden_metadata_keys.items :
               IsForbiddenItem(Info[i], PreflightRules.forbidden_metadata_keys.items[k])
                   => /\ ~EffectivelyEmpty(Info[i].value) => ~ReportCheck(5).passed
                      /\ ( /\ EffectivelyEmpty(Info[i].value)
                           /\ Len(PreflightRules.forbidden_metadata_keys.items) = 1
                           /\ PreflightRules.forbidden_metadata_patterns.items = <<>> )
                             => ReportCheck(5).passed

C14_Witness ==
    /\ report_file.written
    /\ PreflightRules.forbidden_metadata_keys.items # <<>>
    /\ PreflightRules.forbidden_metadata_patterns.items = <<>>
    /\ \E i \in DOMAIN Info :
           /\ IsForbiddenItem(Info[i], PreflightRules.forbidden_metadata_keys.items[1])
           /\ Info[i].value = <<"N", "u", "l", "l", "O", "b", "j", "e", "c", "t">>
    /\ ReportCheck(5).passed

\* C15 as stated: metadata_hygiene fails whenever a value of the metadata map
\* contains a configured forbidden pattern as a substring.
C15_AnyPatternInAnyValueFails ==
    report_file.written
        => \A i \in DOMAIN ReportCheck(5).details.metadata :
           \A k \in DOMAIN PreflightRules.forbidden_metadata_patterns.items :
               Contains(ReportCheck(5).details.metadata[i].value,
                        PreflightRules.forbidden_metadata_patterns.items[k])
                   => ~ReportCheck(5).passed

\* C15: metadata_hygiene fails whenever a value of the metadata map that is
\* not effectively empty (blank, or a null sentinel) contains, letter case
\* ignored, a configured forbidden pattern that is not the empty string.
C15_PatternInMeaningfulValueFails ==
    report_file.written
        => \A i \in DOMAIN ReportCheck(5).details.metadata :
           \A k \in DOMAIN PreflightRules.forbidden_metadata_patterns.items :
               LET value == ReportCheck(5).details.metadata[i].value
                   pattern == PreflightRules.forbidden_metadata_patterns.items[k]
               IN  ( /\ pattern # <<>>
                     /\ ~EffectivelyEmpty(value)
                     /\ OccursIgnoringCase(pattern, strip(value)) )
                       => ~ReportCheck(5).passed

C15_Witness ==
    /\ report_file.written
    /\ PreflightRules.forbidden_metadata_keys.items = <<>>
    /\ PreflightRules.forbidden_metadata_patterns.items # <<>>
    /\ Len(ReportCheck(5).details.metadata) = 1
    /\ ReportCheck(5).details.metadata[1].value = TitleValue
    /\ ~ReportCheck(5).passed

\* the entries of a configured list that the text lacks, letter case ignored
Lacking(items, text) == SelectSeq(items, LAMBDA item : ~OccursIgnoringCase(item, text))

\* the entries of a configured list that the text has, letter case ignored
Occurring(items, text) == SelectSeq(items, LAMBDA item : OccursIgnoringCase(item, text))

\* C16: privilege_watermark and citation_integrity report as missing exactly
\* the configured entries that do not occur in the text as a case-insensitive
\* substring, and do not pass when an entry is missing.
C16_MissingIsExact ==
    report_file.written
        => /\ ReportCheck(1).details.missing
                  = Lacking(PreflightRules.required_phrases.items, preflight_args.pdf.text)
           /\ ReportCheck(2).details.missing
                  = Lacking(PreflightRules.required_citations.items, preflight_args.pdf.text)
           /\ \A i \in {1, 2} :
                  ReportCheck(i).details.missing # <<>> => ~ReportCheck(i).passed

C16_Witness ==
    /\ report_file.written
    /\ preflight_args.pdf.text = <<"B">>
    /\ ReportCheck(1).details.required = << <<"A", "b">>, <<"b">> >>
    /\ ReportCheck(1).details.missing = << <<"A", "b">> >>
    /\ ~ReportCheck(1).passed

\* the redaction lists the rules configure: those of an object, else none
ConfiguredRedaction(field) ==
    IF PreflightRules.redaction.kind = "dict" THEN PreflightRules.redaction[field].items
    ELSE <<>>

\* C17: redaction_verification fails exactly when a configured pending
\* pattern or a configured sensitive term occurs in the text, letter case
\* ignored, and reports the hits of the two lists separately.
C17_RedactionFailsOnEitherHit ==
    report_file.written
        => LET pending == Occurring(ConfiguredRedaction("pending_patterns"),
                                    preflight_args.pdf.text)
               leaks == Occurring(ConfiguredRedaction("sensitive_terms"),
                                  preflight_args.pdf.text)
           IN  /\ ~ReportCheck(4).passed <=> (pending # <<>> \/ leaks # <<>>)
               /\ ReportCheck(4).details.pending_hits = pending
               /\ ReportCheck(4).details.sensitive_term_hits = leaks

C17_Witness ==
    /\ report_file.written
    /\ ReportCheck(4).details.pending_hits = <<>>
    /\ ReportCheck(4).details.sensitive_term_hits # <<>>
    /\ ~ReportCheck(4).passed

\* the second run on the same files has ended
RanTwice == previous_run.done /\ preflight_pc = "exit"

\* a report without the time at which it was made
Undated(report) == IF report.written THEN [report EXCEPT !.timestamp_utc = 0] ELSE report

IsEmptyList(field) == ~field.present \/ field.items = <<>>

\* a rule set in which every field is empty or absent
AllFieldsEmpty(rules) ==
    /\ IsEmptyList(rules.required_phrases)
    /\ IsEmptyList(rules.required_citations)
    /\ IsEmptyList(rules.prohibited_patterns)
    /\ \/ rules.redaction.kind = "absent"
       \/ /\ rules.redaction.kind = "dict"
          /\ IsEmptyList(rules.redaction.pending_patterns)
          /\ IsEmptyList(rules.redaction.sensitive_terms)
    /\ IsEmptyList(rules.forbidden_metadata_keys)
    /\ IsEmptyList(rules.forbidden_metadata_patterns)
    /\ rules.min_pages.kind = "absent"

\* the run had a PDF of at least one page and an all-empty rule set
RanOnEmptyRules ==
    /\ preflight_pc = "exit"
    /\ preflight_args.pdf.exists
    /\ preflight_args.pdf.pages >= 1
    /\ preflight_args.rules.state = "object"
    /\ AllFieldsEmpty(PreflightRules)

\* C19: with a rule set whose every field is empty or absent, all six checks
\* pass and the status is PASS, for every text, every metadata map and every
\* page count of at least 1.
C19_EmptyRulesPass ==
    RanOnEmptyRules
        => /\ report_file.written
           /\ report_file.status = "PASS"
           /\ \A i \in DOMAIN report_file.checks : ReportCheck(i).passed

C19_Witness ==
    /\ RanOnEmptyRules
    /\ PreflightRules.required_phrases.present
    /\ preflight_args.pdf.text # <<>>
    /\ Len(Info) = 2
    /\ preflight_args.pdf.pages = 1
    /\ report_file.written
    /\ report_file.status = "PASS"

\* an operational error: an input is missing, the rules cannot be read as a
\* JSON object, or the evaluation raises
OperationalError ==
    \/ ~preflight_args.pdf.exists
    \/ preflight_args.rules.state # "object"
    \/ PreflightRules.min_pages.kind = "text"

\* C20: the run ends with 1 on every operational error and writes no report;
\* otherwise it writes a report and ends with 0 exactly when the status is
\* PASS and with 2 exactly when the status is FAIL.
C20_ThreeExitCodes ==
    preflight_pc = "exit"
        => IF OperationalError
           THEN preflight_exit_code = 1 /\ ~report_file.written
           ELSE /\ report_file.written
                /\ preflight_exit_code \in {0, 2}
                /\ preflight_exit_code = 0 <=> report_file.status = "PASS"
                /\ preflight_exit_code = 2 <=> report_file.status = "FAIL"

C20_Witness ==
    /\ preflight_pc = "exit"
    /\ ~OperationalError
    /\ report_file.status = "FAIL"
    /\ preflight_exit_code = 2

(***************************************************************************)
(* resolve_credentials on its own: every argument, environment and file    *)
(* state of the bounded sets below                                         *)
(***************************************************************************)
\* --credentials-json and ADOBE_PDF_CREDENTIALS_JSON: "" when not given
CredentialArgs == {"", "a.json", DEFAULT_CREDENTIALS_JSON}
CredentialEnvJson == {"", "a.json", "b.json"}

\* what lies at a candidate path
CandidateFiles == {"absent", "badjson", "null_client_id", "valid"}

\* the stripped value of an environment variable: unset or blank, or a text
EnvValues(text) == {<<>>, text}

CredentialEnvs ==
    [arg : CredentialArgs, env_json : CredentialEnvJson,
     files : [CredPaths -> CandidateFiles],
     primary_id : EnvValues(<<"p", "i", "d">>),
     primary_secret : EnvValues(<<"p", "s", "e", "c">>),
     legacy_id : EnvValues(<<"l", "i", "d">>),
     legacy_secret : EnvValues(<<"l", "s", "e", "c">>)]

outside_resolver == <<orchestrator, preflight, router, bundle>>

ResolverInit ==
    /\ OrchestratorIdle
    /\ PreflightIdle
    /\ RouterIdle
    /\ BundleIdle
    /\ resolver_pc = "call"
    /\ resolver_env \in CredentialEnvs
    /\ resolution = None

\* resolve_credentials(credentials_json_arg), lines 128-164
resolver_call ==
    /\ resolver_pc = "call"
    /\ resolution' = resolve_credentials(resolver_env)
    /\ resolver_pc' = "done"
    /\ UNCHANGED <<outside_resolver, resolver_env>>

ResolverNext ==
    \/ resolver_call

ResolverSpec == ResolverInit /\ [][ResolverNext]_vars

(***************************************************************************)
(* Properties of resolve_credentials                                       *)
(***************************************************************************)
\* the candidate paths in the order override, environment-named, default,
\* each path once
CandidatePaths ==
    LET given == SelectSeq(<<resolver_env.arg, resolver_env.env_json>>, LAMBDA q : q # "")
        listed == given \o <<DEFAULT_CREDENTIALS_JSON>>
    IN  SelectSeq([i \in DOMAIN listed |-> [at |-> i, path |-> listed[i]]],
                  LAMBDA c : \A j \in 1..(c.at - 1) : listed[j] # c.path)

\* the file at the path exists and holds a non-empty client_id/client_secret pair
HoldsPair(path) == resolver_env.files[path] = "valid"

\* the file at the path exists and the resolver takes credentials from it
YieldsCredentials(path) == resolver_env.files[path] \in {"valid", "null_client_id"}

\* exactly one of the two variables of a pair is non-empty
PartiallySet(id, secret) == (id # <<>>) # (secret # <<>>)

\* the message that names the set variable of a pair and its missing partner
PartnerMessage(id, secret, id_name, secret_name) ==
    IF id # <<>> /\ secret = <<>> THEN id_name \o " is set but " \o secret_name \o " is missing"
    ELSE secret_name \o " is set but " \o id_name \o " is missing"

\* C21: when no candidate file yields credentials and an environment pair is
\* partially set, resolve_credentials fails, its error names the set variable
\* and the missing partner of each such pair, and it is not the generic
\* message.
C21_PartialPairIsReported ==
    ( /\ resolver_pc = "done"
      /\ \A i \in DOMAIN CandidatePaths : ~YieldsCredentials(CandidatePaths[i].path)
      /\ \/ PartiallySet(resolver_env.primary_id, resolver_env.primary_secret)
         \/ PartiallySet(resolver_env.legacy_id, resolver_env.legacy_secret) )
        => /\ ~resolution.ok
           /\ PartiallySet(resolver_env.primary_id, resolver_env.primary_secret)
                  => PartnerMessage(resolver_env.primary_id, resolver_env.primary_secret,
                                    "PDF_SERVICES_CLIENT_ID", "PDF_SERVICES_CLIENT_SECRET")
                         \in Range(resolution.env_messages)
           /\ PartiallySet(resolver_env.legacy_id, resolver_env.legacy_secret)
                  => PartnerMessage(resolver_env.legacy_id, resolver_env.legacy_secret,
                                    "ADOBE_PDF_SERVICES_CLIENT_ID",
                                    "ADOBE_PDF_SERVICES_CLIENT_SECRET")
                         \in Range(resolution.env_messages)
           /\ "No usable environment credentials found." \notin Range(resolution.env_messages)

\* the first candidates that hold a pair
PairHolders == SelectSeq(CandidatePaths, LAMBDA c : HoldsPair(c.path))

\* C22: resolve_credentials returns the credentials of the first candidate
\* file that holds a non-empty pair, whatever the candidates before it are;
\* when no candidate holds one it returns the primary environment pair, else
\* the legacy pair, else it fails.
C22_FirstPairHolderWins ==
    resolver_pc = "done"
        => IF PairHolders # <<>>
           THEN /\ resolution.ok
                /\ resolution.source = <<"json:", PairHolders[1].path>>
                /\ resolution.client_id = FileClientId(PairHolders[1].path)
                /\ resolution.client_secret = FileClientSecret(PairHolders[1].path)
           ELSE IF resolver_env.primary_id # <<>> /\ resolver_env.primary_secret # <<>>
           THEN /\ resolution.ok
                /\ resolution.client_id = resolver_env.primary_id
                /\ resolution.client_secret = resolver_env.primary_secret
           ELSE IF resolver_env.legacy_id # <<>> /\ resolver_env.legacy_secret # <<>>
           THEN /\ resolution.ok
                /\ resolution.client_id = resolver_env.legacy_id
                /\ resolution.client_secret = resolver_env.legacy_secret
           ELSE ~resolution.ok

(***************************************************************************)
(* Further properties of the orchestrator                                  *)
(***************************************************************************)
\* the non-empty texts that a JSON object of the set carries under the key
CarriedTexts(bodies, key) ==
    {strip(b[key]) : b \in {c \in bodies : c.json = "object" /\ key \notin c.nulls}}
        \ {<<>>}

\* C26: the run is past authentication only with a non-empty access_token
\* that the token response carried, and past asset creation only with a
\* non-empty assetID and a non-empty uploadUri that the asset response
\* carried; otherwise no upload and no later step is issued.
C26_AdvanceNeedsTokenAndAsset ==
    /\ token # None => token.access_token \in CarriedTexts(TokenBodies, "access_token")
    /\ upload_info # None
           => /\ upload_info.asset_id \in CarriedTexts(AssetBodies, "assetID")
              /\ upload_info.upload_uri \in CarriedTexts(AssetBodies, "uploadUri")
    /\ "asset" \in Range(calls) => token # None
    /\ "upload" \in Range(calls) => upload_info # None

\* C27: for every non-empty Location header the poll URL that
\* submit_create_pdf_job returns is absolute: an absolute Location unchanged,
\* a relative one resolved against the API base URL.
C27_PollUrlIsAbsolute ==
    create_job # None
        => LET location == strip(submit_exchange.location)
           IN  /\ has_scheme(create_job.location)
               /\ has_scheme(location) => create_job.location = location
               /\ ~has_scheme(location)
                      => SubSeq(create_job.location, 1, Len(ApiBaseUrl)) = ApiBaseUrl

\* the x-request-id of the response to the n-th request of the run
ReceivedId(n) == IF args.request_ids THEN RequestId(n) ELSE None

\* the place of a step's request among the requests of the run
CallOf(step) == CHOOSE n \in DOMAIN calls : calls[n] = step

\* the AdobeApiError in flight was raised with a response of the latest
\* request at hand: not by a failed connection, not by the deadline check
\* before the first poll
RaisedAfterResponse ==
    /\ exc.type = "AdobeApiError"
    /\ exc.message # <<"Network error">>
    /\ calls # <<>>
    /\ exc.message = <<"Polling timed out">> => Last(calls) = "poll"

\* C28: every result of a step and every AdobeApiError raised after a
\* response was received carries the x-request-id of that response; so does
\* the error of the polling loop once a poll response has been received.
C28_RequestIdPropagated ==
    /\ token # None => token.request_id = ReceivedId(CallOf("token"))
    /\ upload_info # None => upload_info.request_id = ReceivedId(CallOf("asset"))
    /\ upload_result # None => upload_result.request_id = ReceivedId(CallOf("upload"))
    /\ create_job # None => create_job.request_id = ReceivedId(CallOf("submit"))
    /\ job_result # None => job_result.request_id = ReceivedId(Len(calls) - Count("download", calls))
    /\ RaisedAfterResponse => exc.request_id = ReceivedId(Len(calls))

\* the access tokens that the token endpoint of the model issues
IssuedTokens ==
    {strip(json_text(b, "access_token")) : b \in {x \in TokenBodies : x.json = "object"}}
        \ {<<>>}

LiveLogWritten == ~args.mock /\ request_log # None
ErrorLog == LiveLogWritten /\ "error" \in DOMAIN request_log
SuccessLog == LiveLogWritten /\ "steps" \in DOMAIN request_log

\* the texts that the written log holds
LoggedTexts ==
    IF ErrorLog THEN
        {request_log.error.message}
        \cup (IF request_log.error.body_excerpt = None THEN {}
              ELSE {request_log.error.body_excerpt.text})
    ELSE
        {request_log.credentials.source, request_log.credentials.client_id_masked,
         request_log.steps.asset.asset_id, request_log.steps.asset.upload_uri,
         request_log.steps.create_job.location}
        \cup (IF request_log.credentials.organization_id = None THEN {}
              ELSE {request_log.credentials.organization_id.text})

\* the response bodies that the details of a logged error quote
QuotedBodies ==
    LET details == request_log.error.details
    IN  {details[k] : k \in DOMAIN details \cap {"response", "job", "last_status"}}

SecretsNotInLog ==
    LiveLogWritten =>
        /\ \A text \in LoggedTexts :
                /\ ~Contains(text, credentials.client_secret)
                /\ \A issued \in IssuedTokens : ~Contains(text, issued)
        /\ ErrorLog => \A body \in QuotedBodies : "access_token" \notin DOMAIN body
        /\ SuccessLog =>
                /\ request_log.credentials.client_id_masked
                        = mask_secret(credentials.client_id, 4)
                /\ DOMAIN request_log.token = {"token_type", "expires_in", "request_id"}

\* C23 as stated: neither the client secret nor the access-token value is
\* anywhere in the request log of a live run, and of the credentials the log
\* of a successful run holds only the source and a masked client id
C23_LogHoldsSourceAndMaskedIdOnly ==
    /\ SecretsNotInLog
    /\ SuccessLog => DOMAIN request_log.credentials = {"source", "client_id_masked"}

\* C23: neither the client secret nor the access-token value is anywhere in
\* the request log of a live run, successful or ended by an AdobeApiError; of
\* the credentials the log holds the source, a masked client id and the
\* organization id, of the token its type, expiry and request id
C23_SecretsNeverLogged ==
    /\ SecretsNotInLog
    /\ SuccessLog =>
            DOMAIN request_log.credentials = {"source", "client_id_masked", "organization_id"}

\* a token was issued and the run wrote its log: a successful run whose
\* credentials file names an organization, and a run that an AdobeApiError
\* ended after the token response
C23_LogOfSuccessfulRun ==
    SuccessLog /\ request_log.credentials.organization_id # None
C23_LogOfFailedTokenStep ==
    ErrorLog /\ calls = <<"token">> /\ request_log.error.body_excerpt # None

\* the run is over and did not succeed
RunFailed == pc = "exit" /\ exit_code # 0

UntouchedOutput == [writes |-> 0, content |-> "before"]

\* C29: in live mode the destination file is written at most once, and only
\* after a poll returned done with a non-empty download URI and the download
\* request succeeded; a run that fails leaves the file as it was
C29_OutputWrittenOnceAfterDownload ==
    ~args.mock =>
        /\ output_file.writes <= 1
        /\ output_file # UntouchedOutput =>
                /\ job_result # None
                /\ job_result.status = "done"
                /\ strip(download_uri_text(job_result.asset)) # <<>>
                /\ calls # <<>> /\ Last(calls) = "download"
                /\ returned # <<>> /\ Last(returned) = "download"
                /\ exc = NoException
                /\ output_file = [writes |-> 1, content |-> "download"]
        /\ RunFailed => output_file = UntouchedOutput

\* a live run whose download request failed is over, and one that wrote the file
C29_DownloadRequestFailed ==
    ~args.mock /\ RunFailed /\ calls # <<>> /\ Last(calls) = "download"
C29_OutputWritten ==
    ~args.mock /\ pc = "exit" /\ output_file = [writes |-> 1, content |-> "download"]

(***************************************************************************)
(* route_exec_renderer.py: one run of main                                 *)
(***************************************************************************)
Renderers == {"auto", "canva", "adobe-connector", "adobe-api"}

RouterArgs == [renderer : Renderers, payload_exists : BOOLEAN]

\* what subprocess.run(cmd, text=True, capture_output=True, check=False) hands
\* back: the return code of the child (negative when a signal killed it) and
\* the text it wrote
ReturnCodes == {0, 1, 2, -9}
Outputs == {<<>>, <<"ok", "\n">>, <<" ", "warning">>}
Runs == [returncode : ReturnCodes, stdout : Outputs, stderr : Outputs]

\* _attempt_canva, _attempt_adobe_api, _attempt_adobe_connector: the entry
\* made of the finished run
attempt_canva(run) ==
    [name |-> "canva_pipeline", returncode |-> run.returncode,
     stdout |-> strip(run.stdout), stderr |-> strip(run.stderr),
     job_output |-> "request.canva_job.json",
     quality_output |-> "request.canva_quality.json"]

attempt_adobe_api(run) ==
    [name |-> "adobe_api", returncode |-> run.returncode,
     stdout |-> strip(run.stdout), stderr |-> strip(run.stderr)]

attempt_adobe_connector(run) ==
    [name |-> "adobe_connector", returncode |-> run.returncode,
     stdout |-> strip(run.stdout), stderr |-> strip(run.stderr),
     prompt_path |-> "request.connector_prompt.txt"]

\* returncode or 1
or_one(returncode) == IF returncode # 0 THEN returncode ELSE 1

\* variant: the list holds the latest attempt only
append_latest_only(r, attempt) == [r EXCEPT !.attempts = <<attempt>>]

\* report["attempts"].append(attempt)
append_attempt(r, attempt) == [r EXCEPT !.attempts = Append(@, attempt)]

\* variant: the fallback also runs when the Canva pipeline wrote to stderr
auto_falls_back_on_warnings(canva) == canva.returncode # 0 \/ canva.stderr # <<>>

\* main, line 170: the auto branch goes on to the Adobe API backend
auto_falls_back(canva) == canva.returncode # 0

\* raise SystemExit(rc): the exit status that the parent process sees
exit_status(rc) == rc % 256

outside_router == <<orchestrator, preflight, resolver, bundle>>

RouterInit ==
    /\ OrchestratorIdle
    /\ PreflightIdle
    /\ ResolverIdle
    /\ BundleIdle
    /\ router_pc = "main"
    /\ router_args \in RouterArgs
    /\ router_report = None
    /\ router_rc = -1
    /\ router_log = None
    /\ router_exit_code = -1
    /\ invoked = <<>>

\* main, lines 121-164: the report, the payload check, and the way to the branch
router_main ==
    /\ router_pc = "main"
    /\ LET new_report == [renderer |-> router_args.renderer, attempts |-> <<>>,
                          status |-> "RUNNING"]
       IN  IF ~router_args.payload_exists THEN
                LET failed == [renderer |-> router_args.renderer, attempts |-> <<>>,
                               status |-> "ERROR", error |-> "Payload not found"]
                IN  /\ router_report' = failed
                    /\ router_log' = failed
                    /\ router_rc' = 1
                    /\ router_exit_code' = exit_status(1)
                    /\ router_pc' = "exit"
           ELSE /\ router_report' = new_report
                /\ router_pc' = router_args.renderer
                /\ UNCHANGED <<router_log, router_rc, router_exit_code>>
    /\ UNCHANGED <<outside_router, router_args, invoked>>

\* main, lines 145-149
router_canva ==
    /\ router_pc = "canva"
    /\ \E run \in Runs :
        LET canva == attempt_canva(run)
        IN  /\ invoked' = Append(invoked, [name |-> "canva_pipeline", run |-> run])
            /\ router_report' =
                [append_attempt(router_report, canva) EXCEPT
                    !.status = IF canva.returncode = 0 THEN "SUCCESS_CANVA"
                                                       ELSE "FAILED_CANVA"]
            /\ router_rc' = IF canva.returncode = 0 THEN 0 ELSE or_one(canva.returncode)
    /\ router_pc' = "write"
    /\ UNCHANGED <<outside_router, router_args, router_log, router_exit_code>>

\* main, lines 151-155
router_adobe_api ==
    /\ router_pc = "adobe-api"
    /\ \E run \in Runs :
        LET adobe == attempt_adobe_api(run)
        IN  /\ invoked' = Append(invoked, [name |-> "adobe_api", run |-> run])
            /\ router_report' =
                [append_attempt(router_report, adobe) EXCEPT
                    !.status = IF adobe.returncode = 0 THEN "SUCCESS_ADOBE_API"
                                                       ELSE "FAILED_ADOBE_API"]
            /\ router_rc' = IF adobe.returncode = 0 THEN 0 ELSE or_one(adobe.returncode)
    /\ router_pc' = "write"
    /\ UNCHANGED <<outside_router, router_args, router_log, router_exit_code>>

\* main, lines 157-165
router_adobe_connector ==
    /\ router_pc = "adobe-connector"
    /\ \E run \in Runs :
        LET connector == attempt_adobe_connector(run)
        IN  /\ invoked' = Append(invoked, [name |-> "adobe_connector", run |-> run])
            /\ router_report' =
                [append_attempt(router_report, connector) EXCEPT
                    !.status = IF connector.returncode = 0
                                  THEN "PENDING_MANUAL_CONNECTOR_RUN"
                                  ELSE "FAILED_ADOBE_CONNECTOR_PROMPT"]
            /\ router_rc' = IF connector.returncode = 0 THEN 4
                                                        ELSE or_one(connector.returncode)
    /\ router_pc' = "write"
    /\ UNCHANGED <<outside_router, router_args, router_log, router_exit_code>>

\* main, lines 167-172: the Canva pipeline of the auto branch
router_auto_canva ==
    /\ router_pc = "auto"
    /\ \E run \in Runs :
        LET canva == attempt_canva(run)
        IN  /\ invoked' = Append(invoked, [name |-> "canva_pipeline", run |-> run])
            /\ IF auto_falls_back(canva) THEN
                    /\ router_report' = append_attempt(router_report, canva)
                    /\ router_pc' = "auto_adobe"
                    /\ UNCHANGED router_rc
               ELSE /\ router_report' =
                        [append_attempt(router_report, canva) EXCEPT
                            !.status = "SUCCESS_CANVA"]
                    /\ router_rc' = 0
                    /\ router_pc' = "write"
    /\ UNCHANGED <<outside_router, router_args, router_log, router_exit_code>>

\* main, lines 173-181: the Adobe API backend of the auto branch
router_auto_adobe ==
    /\ router_pc = "auto_adobe"
    /\ \E run \in Runs :
        LET adobe == attempt_adobe_api(run)
        IN  /\ invoked' = Append(invoked, [name |-> "adobe_api", run |-> run])
            /\ router_report' =
                [append_attempt(router_report, adobe) EXCEPT
                    !.status = IF adobe.returncode = 0 THEN "SUCCESS_ADOBE_FALLBACK"
                                                       ELSE "FAILED_ALL_RENDERERS"]
            /\ router_rc' = IF adobe.returncode = 0 THEN 0 ELSE or_one(adobe.returncode)
    /\ router_pc' = "write"
    /\ UNCHANGED <<outside_router, router_args, router_log, router_exit_code>>

\* main, lines 183-188, and raise SystemExit(main())
router_write_log ==
    /\ router_pc = "write"
    /\ router_log' = router_report
    /\ router_exit_code' = exit_status(router_rc)
    /\ router_pc' = "exit"
    /\ UNCHANGED <<outside_router, router_args, router_report, router_rc, invoked>>

RouterNext ==
    \/ router_main
    \/ router_canva
    \/ router_adobe_api
    \/ router_adobe_connector
    \/ router_auto_canva
    \/ router_auto_adobe
    \/ router_write_log

RouterSpec == RouterInit /\ [][RouterNext]_vars

(***************************************************************************)
(* Properties of the router                                                *)
(***************************************************************************)
WasInvoked(name) == \E i \in DOMAIN invoked : invoked[i].name = name

ReturnedNonZero(name) ==
    \E i \in DOMAIN invoked : invoked[i].name = name /\ invoked[i].run.returncode # 0

AutoRun == router_args # None /\ router_args.renderer = "auto"

\* the fallback of the auto branch runs exactly when the Canva pipeline failed
FallbackIffCanvaFailed ==
    /\ WasInvoked("adobe_api") => ReturnedNonZero("canva_pipeline")
    /\ router_pc \in {"write", "exit"} /\ ReturnedNonZero("canva_pipeline")
            => WasInvoked("adobe_api")

\* what a finished auto run reports when not both backends failed
AutoOutcome ==
    IF ReturnedNonZero("canva_pipeline") /\ ReturnedNonZero("adobe_api") THEN
        /\ router_log.status = "FAILED_ALL_RENDERERS"
        /\ router_exit_code # 0
    ELSE
        /\ router_exit_code = 0
        /\ router_log.status = IF WasInvoked("adobe_api") THEN "SUCCESS_ADOBE_FALLBACK"
                                                        ELSE "SUCCESS_CANVA"

\* C24 as stated: every run in auto mode invokes the Adobe API backend exactly
\* when the Canva pipeline returned non-zero, ends with FAILED_ALL_RENDERERS and
\* a non-zero exit code exactly when both returned non-zero, and otherwise
\* exits 0 with the status of the backend that succeeded
C24_AutoFailsOnlyWhenBothFail ==
    AutoRun =>
        /\ FallbackIffCanvaFailed
        /\ router_pc = "exit" => AutoOutcome

\* C24: the same, of the auto runs whose payload file exists; a run whose
\* payload file is missing invokes no backend and ends with status ERROR and
\* exit code 1
C24_AutoWithPayloadFailsOnlyWhenBothFail ==
    AutoRun =>
        /\ FallbackIffCanvaFailed
        /\ router_pc = "exit" =>
                IF router_args.payload_exists THEN AutoOutcome
                ELSE /\ invoked = <<>>
                     /\ router_log.status = "ERROR"
                     /\ router_exit_code = 1

\* an auto run is over in which the Canva pipeline failed and the fallback succeeded
C24_FallbackSucceeded ==
    /\ AutoRun /\ router_pc = "exit"
    /\ ReturnedNonZero("canva_pipeline")
    /\ WasInvoked("adobe_api") /\ ~ReturnedNonZero("adobe_api")

\* text without the whitespace at its ends
Whitespace == {" ", "\n", "\t"}
WithoutOuterWhitespace(text) ==
    LET inked == {i \in DOMAIN text : text[i] \notin Whitespace}
    IN  IF inked = {} THEN <<>>
        ELSE SubSeq(text, CHOOSE i \in inked : \A k \in inked : i <= k,
                          CHOOSE i \in inked : \A k \in inked : i >= k)

\* the attempts of the written log are the backends invoked, in order, each
\* with its return code
AttemptsAreInvocations ==
    /\ router_pc = "exit" => router_log # None
    /\ router_log # None =>
            /\ router_pc = "exit"
            /\ Len(router_log.attempts) = Len(invoked)
            /\ \A i \in DOMAIN invoked :
                    /\ router_log.attempts[i].name = invoked[i].name
                    /\ router_log.attempts[i].returncode = invoked[i].run.returncode
            /\ \A i, j \in DOMAIN invoked : invoked[i].name = invoked[j].name => i = j

\* C25 as stated: in every mode and on every branch the written log lists the
\* backends invoked, one entry each, in order, with the return code and the
\* output captured from the backend
C25_AttemptsHoldCapturedOutput ==
    /\ AttemptsAreInvocations
    /\ router_log # None =>
            \A i \in DOMAIN invoked :
                /\ router_log.attempts[i].stdout = invoked[i].run.stdout
                /\ router_log.attempts[i].stderr = invoked[i].run.stderr

\* C25: in every mode and on every branch the written log lists the backends
\* invoked, one entry each, in order, with the return code and the captured
\* output less the whitespace at its ends
C25_AttemptsHoldTrimmedOutput ==
    /\ AttemptsAreInvocations
    /\ router_log # None =>
            \A i \in DOMAIN invoked :
                /\ router_log.attempts[i].stdout
                        = WithoutOuterWhitespace(invoked[i].run.stdout)
                /\ router_log.attempts[i].stderr
                        = WithoutOuterWhitespace(invoked[i].run.stderr)

\* the log of a run that invoked two backends is written
C25_TwoAttemptsLogged == router_log # None /\ Len(invoked) = 2

(***************************************************************************)
(* prepare_canva_portal_bundle.py: one run of main                         *)
(***************************************************************************)
\* sorted(app_source.rglob("*")), the files only, relative to app_source
AppFiles == <<"a.ts", "b.ts", "c.ts">>

OverlayPaths == {AppFiles[i] : i \in DOMAIN AppFiles}

\* what lies at a path: nothing, the file of the starter kit, the file of the
\* app source, or a file whose copying broke off
StarterKits == [OverlayPaths -> {"absent", "kit"}]

\* how copying one file of the overlay can go: both copies made, the backup
\* copy raised, the copy to the destination raised before it wrote, or it
\* raised after it had begun to write
CopyOutcomes == {"copied", "backup_failed", "copy_failed", "copy_broke_off"}

\* _restore_source(starter_kit, backup_dir, changes)
RECURSIVE restore_source(_, _, _)
restore_source(kit, backup, done) ==
    IF done = <<>> THEN kit
    ELSE LET relative == done[Len(done)][1]
             existed == done[Len(done)][2]
         IN  restore_source(
                [kit EXCEPT ![relative] = IF existed THEN backup[relative] ELSE "absent"],
                backup, SubSeq(done, 1, Len(done) - 1))

outside_bundle == <<orchestrator, preflight, resolver, router>>

BundleInit ==
    /\ OrchestratorIdle
    /\ PreflightIdle
    /\ ResolverIdle
    /\ RouterIdle
    /\ bundle_pc = "main"
    /\ node_modules \in BOOLEAN
    /\ starter_kit \in StarterKits
    /\ backup_dir = [relative \in OverlayPaths |-> "absent"]
    /\ changes = <<>>
    /\ overlay_changes = <<>>
    /\ bundle_exit_code = -1
    /\ kit_before = starter_kit

\* main, lines 202-266: the checks of the directories, of node and of .env,
\* each of which returns 1 before the overlay
bundle_main ==
    /\ bundle_pc = "main"
    /\ \E checks_pass \in BOOLEAN :
        IF checks_pass THEN
            /\ bundle_pc' = "overlay"
            /\ UNCHANGED bundle_exit_code
        ELSE
            /\ bundle_pc' = "exit"
            /\ bundle_exit_code' = 1
    /\ UNCHANGED <<outside_bundle, node_modules, starter_kit, backup_dir, changes,
                   overlay_changes, kit_before>>

\* _overlay_source, lines 56-71: one file of the loop; an error leaves the
\* function, and its list of changes with it, for the except clause of main
bundle_overlay_file ==
    /\ bundle_pc = "overlay"
    /\ Len(overlay_changes) < Len(AppFiles)
    /\ LET relative == AppFiles[Len(overlay_changes) + 1]
           existed == starter_kit[relative] # "absent"
       IN  \E outcome \in CopyOutcomes :
            /\ outcome = "backup_failed" => existed
            /\ backup_dir' = IF existed /\ outcome # "backup_failed"
                                THEN [backup_dir EXCEPT ![relative] = starter_kit[relative]]
                                ELSE backup_dir
            /\ starter_kit' = IF outcome = "copied"
                                THEN [starter_kit EXCEPT ![relative] = "app"]
                              ELSE IF outcome = "copy_broke_off"
                                THEN [starter_kit EXCEPT ![relative] = "partial"]
                              ELSE starter_kit
            /\ IF outcome = "copied" THEN
                    /\ overlay_changes' = Append(overlay_changes, <<relative, existed>>)
                    /\ UNCHANGED bundle_pc
               ELSE /\ overlay_changes' = <<>>
                    /\ bundle_pc' = "except"
    /\ UNCHANGED <<outside_bundle, node_modules, changes, bundle_exit_code, kit_before>>

\* _overlay_source, line 73, and main, lines 273-279
bundle_overlay_return ==
    /\ bundle_pc = "overlay"
    /\ Len(overlay_changes) = Len(AppFiles)
    /\ changes' = overlay_changes
    /\ bundle_pc' = IF node_modules THEN "npm_build" ELSE "npm_install"
    /\ UNCHANGED <<outside_bundle, node_modules, starter_kit, backup_dir, overlay_changes,
                   bundle_exit_code, kit_before>>

\* main, lines 279-290
bundle_npm_install ==
    /\ bundle_pc = "npm_install"
    /\ \E returncode \in {0, 1} :
        bundle_pc' = IF returncode # 0 THEN "except" ELSE "npm_build"
    /\ UNCHANGED <<outside_bundle, node_modules, starter_kit, backup_dir, changes,
                   overlay_changes, bundle_exit_code, kit_before>>

\* main, lines 292-300
bundle_npm_build ==
    /\ bundle_pc = "npm_build"
    /\ \E returncode \in {0, 1} :
        bundle_pc' = IF returncode # 0 THEN "except" ELSE "collect"
    /\ UNCHANGED <<outside_bundle, node_modules, starter_kit, backup_dir, changes,
                   overlay_changes, bundle_exit_code, kit_before>>

\* main, lines 302-352: the artifacts, the report, return 0
bundle_collect ==
    /\ bundle_pc = "collect"
    /\ \E artifact_missing \in BOOLEAN :
        IF artifact_missing THEN
            /\ bundle_pc' = "except"
            /\ UNCHANGED bundle_exit_code
        ELSE
            /\ bundle_pc' = "finally"
            /\ bundle_exit_code' = 0
    /\ UNCHANGED <<outside_bundle, node_modules, starter_kit, backup_dir, changes,
                   overlay_changes, kit_before>>

\* main, lines 354-359: except Exception, return 1
bundle_except ==
    /\ bundle_pc = "except"
    /\ bundle_pc' = "finally"
    /\ bundle_exit_code' = 1
    /\ UNCHANGED <<outside_bundle, node_modules, starter_kit, backup_dir, changes,
                   overlay_changes, kit_before>>

\* main, lines 361-362: the finally clause
bundle_finally ==
    /\ bundle_pc = "finally"
    /\ starter_kit' = restore_source(starter_kit, backup_dir, changes)
    /\ bundle_pc' = "exit"
    /\ UNCHANGED <<outside_bundle, node_modules, backup_dir, changes, overlay_changes,
                   bundle_exit_code, kit_before>>

BundleNext ==
    \/ bundle_main
    \/ bundle_overlay_file
    \/ bundle_overlay_return
    \/ bundle_npm_install
    \/ bundle_npm_build
    \/ bundle_collect
    \/ bundle_except
    \/ bundle_finally

BundleSpec == BundleInit /\ [][BundleNext]_vars

(***************************************************************************)
(* Properties of the bundle preparation                                    *)
(***************************************************************************)
\* C30: when main is over, on whatever path it left the overlay phase, every
\* file of the starter kit that was there before the overlay has its original
\* content and every file that the overlay created is gone
C30_StarterKitRestored ==
    bundle_pc = "exit" => starter_kit = kit_before
====
